---- MODULE Spec2Model ----
(***************************************************************************)
(* Patient demographic system (src/app.py): the SQLite store with its four *)
(* tables, the identifier issuers and the request handlers.  A request is  *)
(* handled by a server process; every SQL statement is one atomic step, so *)
(* the steps of requests handled by different processes on the same        *)
(* database file interleave (Spec, and SpecCodes for the registrations and *)
(* collections alone), and so do the steps of processes that are started   *)
(* and stopped on it (SpecStartup; SpecRestart is one process started and  *)
(* stopped again and again).  The other specifications are the             *)
(* single-process deployment of main(), one request at a time,             *)
(* each serving one group of requests: SpecSeq and SpecLab the sample      *)
(* workflow, SpecRegistry, SpecRecords and SpecMeasure the registry and    *)
(* the patients' records, SpecGateway the workflow with a send that can    *)
(* report failure, SpecViews the pages that look the store up, and         *)
(* SpecClinic every writing request.  conns counts, for each process, the  *)
(* connections it has open to the database file, and locked tells which    *)
(* process has a connection, left unclosed, that still holds the write     *)
(* lock.                                                                   *)
(***************************************************************************)
EXTENDS Integers, Sequences, FiniteSets, TLC

VARIABLES locations, patients, health_records, blood_samples,
          now, pc, req, resp, outbox, conns, locked

vars == <<locations, patients, health_records, blood_samples,
          now, pc, req, resp, outbox, conns, locked>>

(* ------------------------------ bounds -------------------------------- *)
NumServers == 2
MaxLocations == 2
MaxPatients == 2
MaxHealthRecords == 1
MaxSamples == 1
MaxTime == 1
MaxSent == 2
MaxLabSamples == 2
MaxRaceSamples == 3
MaxUnclosed == 2

Servers == 1..NumServers

(* ------------------------- values and columns ------------------------- *)
\* A nullable column holds Null or Some(v).
Null == <<>>
Some(v) == <<v>>

\* str.format's "06d": the decimal digits of n, left-padded with zeros to
\* width 6 (never truncated).
Digit(d) ==
    CASE d = 0 -> "0" [] d = 1 -> "1" [] d = 2 -> "2" [] d = 3 -> "3"
      [] d = 4 -> "4" [] d = 5 -> "5" [] d = 6 -> "6" [] d = 7 -> "7"
      [] d = 8 -> "8" [] d = 9 -> "9"

RECURSIVE Decimal(_)
Decimal(n) == IF n < 10 THEN Digit(n) ELSE Decimal(n \div 10) \o Digit(n % 10)

RECURSIVE NumDigits(_)
NumDigits(n) == IF n < 10 THEN 1 ELSE 1 + NumDigits(n \div 10)

RECURSIVE Zeros(_)
Zeros(k) == IF k <= 0 THEN "" ELSE "0" \o Zeros(k - 1)

CodeWidth == 6

Format06d(n) == Zeros(CodeWidth - NumDigits(n)) \o Decimal(n)

\* SQLite's INTEGER column affinity applied to the text a form field carries.
IntegerAffinity(s) ==
    CASE s = "1" -> 1 [] s = "2" -> 2 [] s = "3" -> 3 [] s = "9" -> 9

\* SQLite enforces FOREIGN KEY clauses only after PRAGMA foreign_keys = ON,
\* which no connection of the program issues.
ForeignKeys == FALSE

(* ------------------------------ the store ----------------------------- *)
Ids(table) == {table[i].id : i \in DOMAIN table}

\* AUTOINCREMENT primary key of the next row (no row is ever deleted).
NextRowId(table) == Len(table) + 1

\* The row the INSERT of init_database adds at time t.
SeedLocation(locs, t) ==
    [id |-> NextRowId(locs), name |-> "Main Hospital",
     address |-> "123 Healthcare Street, Medical City",
     phone |-> "+1234567890", created_at |-> t]

\* init_database run from its first statement to its last with no other
\* process in between: the default location is inserted if none exists.
init_database(locs, t) ==
    IF Len(locs) = 0 THEN Append(locs, SeedLocation(locs, t)) ELSE locs

\* Mutant: the code is formed from the row count itself.
generate_patient_id_FromCount(pts) == "PAT" \o Format06d(Len(pts))

generate_patient_id(pts) == "PAT" \o Format06d(Len(pts) + 1)

\* Mutant: the code is formed from the row count itself.
generate_sample_id_FromCount(samples) == "BS" \o Format06d(Len(samples))

generate_sample_id(samples) == "BS" \o Format06d(Len(samples) + 1)

(* ------------------------------ responses ----------------------------- *)
NoResp == [status |-> 0, detail |-> "", location |-> ""]
Redirect(to) == [status |-> 302, detail |-> "", location |-> to]
Error(code, msg) == [status |-> code, detail |-> msg, location |-> ""]

Idle == [op |-> "none"]

(* ------------------------------ form data ----------------------------- *)
\* parse_qs drops blank fields: a form is a function from the keys that
\* were filled in to their text.
Has(data, keys) == keys \subseteq DOMAIN data

\* Mutant: the error names the last key the handler reads.
KeyErrorText_LastKey(data, keys) == "'" \o keys[Len(keys)] \o "'"

\* data[key][0] for each key of `keys` in turn: the text of the KeyError the
\* first absent key raises, or "" when every key is present.
RECURSIVE KeyErrorText(_, _)
KeyErrorText(data, keys) ==
    IF keys = <<>> THEN ""
    ELSE IF Head(keys) \notin DOMAIN data THEN "'" \o Head(keys) \o "'"
    ELSE KeyErrorText(data, Tail(keys))

Get(data, key, default) == IF key \in DOMAIN data THEN data[key] ELSE default

LocationIdTexts == {"1", "9"}

RegisterKeys ==
    <<"first_name", "last_name", "date_of_birth", "gender", "phone", "location_id">>

RegisterRequired == {RegisterKeys[i] : i \in DOMAIN RegisterKeys}

FullRegisterForm(loc) ==
    [first_name |-> "Test", last_name |-> "Patient",
     date_of_birth |-> "1990-01-01", gender |-> "Male",
     phone |-> "+1234567890", location_id |-> loc]

RegisterForms ==
    {FullRegisterForm(loc) : loc \in LocationIdTexts}
    \cup {[first_name |-> "Test", last_name |-> "Patient",
           date_of_birth |-> "1990-01-01", gender |-> "Male",
           location_id |-> "1"]}

\* A form with one field left blank.
Without(data, key) == [k \in DOMAIN data \ {key} |-> data[k]]

IncompleteRegisterForms == {Without(FullRegisterForm("1"), k) : k \in RegisterRequired}

(* --------------------------- patients table --------------------------- *)
\* INSERT INTO patients: the row the statement stores.
PatientRow(pts, code, data, t) ==
    [id |-> NextRowId(pts), patient_id |-> code,
     first_name |-> data["first_name"], last_name |-> data["last_name"],
     date_of_birth |-> data["date_of_birth"], gender |-> data["gender"],
     phone |-> data["phone"], email |-> Get(data, "email", ""),
     address |-> Get(data, "address", ""),
     emergency_contact |-> Get(data, "emergency_contact", ""),
     location_id |-> IntegerAffinity(data["location_id"]),
     created_at |-> t]

\* The outcome of INSERT INTO patients: the error the statement raises, or
\* "" when the row is inserted.
InsertPatientError(pts, locs, row) ==
    IF \E i \in DOMAIN pts : pts[i].patient_id = row.patient_id
    THEN "UNIQUE constraint failed: patients.patient_id"
    ELSE IF ForeignKeys /\ row.location_id \notin Ids(locs)
    THEN "FOREIGN KEY constraint failed"
    ELSE ""

(* ------------------------ request path inputs ------------------------- *)
\* The code a request path ends with: every code the issuers can have
\* produced, and one that no row carries.
PatientIdPaths == {"PAT" \o Format06d(k) : k \in 1..MaxPatients} \cup {"PAT999999"}

SampleIdPaths == {"BS" \o Format06d(k) : k \in 1..MaxSamples} \cup {"BS999999"}

LabSampleIdPaths == {"BS" \o Format06d(k) : k \in 1..MaxLabSamples} \cup {"BS999999"}

\* SELECT id FROM patients WHERE patient_id = ?  (fetchone: the row or none)
SelectPatient(pts, code) == {pts[i] : i \in {j \in DOMAIN pts : pts[j].patient_id = code}}

(* ---------------------------- locations table ------------------------- *)
LocationForms == {[name |-> "Clinic", address |-> "1 Side Road"], [address |-> "1 Side Road"]}

LocationRow(locs, data, t) ==
    [id |-> NextRowId(locs), name |-> data["name"],
     address |-> Get(data, "address", ""), phone |-> Get(data, "phone", ""),
     created_at |-> t]

(* ------------------------- health_records table ----------------------- *)
\* The text of a measurement field, character by character, for float()
\* and int() to read.  The texts are made of decimal digits, "." and the
\* letters a, b, c, f, i, n: no sign, exponent, blank or underscore.
DecimalDigits == {"0", "1", "2", "3", "4", "5", "6", "7", "8", "9"}

DigitValue(c) ==
    CASE c = "0" -> 0 [] c = "1" -> 1 [] c = "2" -> 2 [] c = "3" -> 3
      [] c = "4" -> 4 [] c = "5" -> 5 [] c = "6" -> 6 [] c = "7" -> 7
      [] c = "8" -> 8 [] c = "9" -> 9

\* The text a sequence of characters makes.
RECURSIVE Text(_)
Text(cs) ==
    IF cs = <<>> THEN ""
    ELSE IF Len(cs) = 1 THEN cs[1]
    ELSE LET half == Len(cs) \div 2
         IN Text(SubSeq(cs, 1, half)) \o Text(SubSeq(cs, half + 1, Len(cs)))

AllDigits(cs) == \A i \in DOMAIN cs : cs[i] \in DecimalDigits

Repeat(c, k) == [i \in 1..k |-> c]

\* The digits of a text after its leading zeros ("0" if there is no other).
WithoutLeadingZeros(cs) ==
    LET nonzero == {i \in DOMAIN cs : cs[i] # "0"}
    IN IF nonzero = {} THEN <<"0">>
       ELSE SubSeq(cs, CHOOSE i \in nonzero : \A j \in nonzero : i <= j, Len(cs))

\* The digits of a text between its leading and its trailing zeros.
Significant(cs) ==
    LET nonzero == {i \in DOMAIN cs : cs[i] # "0"}
    IN IF nonzero = {} THEN <<>>
       ELSE SubSeq(cs, CHOOSE i \in nonzero : \A j \in nonzero : i <= j,
                       CHOOSE i \in nonzero : \A j \in nonzero : j <= i)

LeadingZeros(cs) == Cardinality({i \in DOMAIN cs : \A j \in 1..i : cs[j] = "0"})

\* sys.int_info.default_max_str_digits: int() refuses a text of more digits.
MaxStrDigits == 4300

\* The ValueError of int() shows at most this many characters of the
\* text's repr.
MaxReprWidth == 200

\* repr(text), for a text without quotes, backslashes and control
\* characters.
Repr(cs) == <<"'">> \o cs \o <<"'">>

Truncated(cs, width) == SubSeq(cs, 1, IF Len(cs) < width THEN Len(cs) ELSE width)

\* The digits a text begins with: int() counts them before it looks at
\* what follows them.
LeadingDigits(cs) ==
    LET other == {i \in DOMAIN cs : cs[i] \notin DecimalDigits}
    IN IF other = {} THEN Len(cs)
       ELSE (CHOOSE i \in other : \A j \in other : i <= j) - 1

\* int(text): the integer, written by its decimal digits without leading
\* zeros, or the ValueError: of a text that begins with more digits than
\* the limit, whatever follows them, and else of a text that is not made
\* of digits.
int(cs) ==
    IF LeadingDigits(cs) > MaxStrDigits
    THEN [ok |-> FALSE,
          error |-> "Exceeds the limit (" \o Decimal(MaxStrDigits)
                    \o " digits) for integer string conversion: value has "
                    \o Decimal(LeadingDigits(cs))
                    \o " digits; use sys.set_int_max_str_digits() to increase the limit"]
    ELSE IF cs = <<>> \/ LeadingDigits(cs) < Len(cs)
    THEN [ok |-> FALSE,
          error |-> "invalid literal for int() with base 10: "
                    \o Text(Truncated(Repr(cs), MaxReprWidth))]
    ELSE [ok |-> TRUE, value |-> WithoutLeadingZeros(cs)]

\* 2^63: sqlite3 binds a Python int as a signed integer of 64 bits and
\* raises OverflowError for an int that is not below this.
SqliteIntegerBound ==
    <<"9", "2", "2", "3", "3", "7", "2", "0", "3", "6",
      "8", "5", "4", "7", "7", "5", "8", "0", "8">>

\* a < b for two ints of as many digits.
DigitsLess(a, b) ==
    \E i \in DOMAIN a :
        /\ DigitValue(a[i]) < DigitValue(b[i])
        /\ \A j \in 1..(i - 1) : a[j] = b[j]

FitsSqliteInteger(n) ==
    \/ Len(n) < Len(SqliteIntegerBound)
    \/ Len(n) = Len(SqliteIntegerBound) /\ DigitsLess(n, SqliteIntegerBound)

(* float() reads a decimal text as the nearest IEEE 754 double, and repr()
   writes a double with the fewest digits that are read back as the same
   double.  Both are computed on natural numbers of any size. *)
\* A natural number as its limbs in base 10^4, the least significant
\* first, with no zero limb at the top; zero is the empty sequence.
Base == 10000

LimbWidth == 4

\* x without the zero limbs at its top.
Trim(x) ==
    SubSeq(x, 1, Len(x) - Cardinality({i \in DOMAIN x : \A j \in i..Len(x) : x[j] = 0}))

Limb(x, i) == IF i <= Len(x) THEN x[i] ELSE 0

\* The number a sequence of decimal digits (values, most significant
\* first) writes.
Limbs(ds) ==
    LET n == Len(ds)
        at(i) == IF i >= 1 THEN ds[i] ELSE 0
    IN Trim([j \in 1..((n + LimbWidth - 1) \div LimbWidth) |->
                at(n - LimbWidth * (j - 1)) + 10 * at(n - LimbWidth * (j - 1) - 1)
                + 100 * at(n - LimbWidth * (j - 1) - 2)
                + 1000 * at(n - LimbWidth * (j - 1) - 3)])

\* The decimal digits of a number, most significant first (none for zero).
DigitsOf(x) ==
    IF x = <<>> THEN <<>>
    ELSE LET total == LimbWidth * (Len(x) - 1) + NumDigits(x[Len(x)])
         IN [k \in 1..total |->
                LET p == total - k
                IN (x[p \div LimbWidth + 1] \div (10 ^ (p % LimbWidth))) % 10]

\* The limbs lo..hi are worked through by halves, the carry going from the
\* lower half to the upper one.
RECURSIVE CompareRange(_, _, _, _)
CompareRange(a, b, lo, hi) ==
    IF lo > hi THEN 0
    ELSE IF lo = hi
    THEN IF a[lo] < b[lo] THEN -1 ELSE IF a[lo] > b[lo] THEN 1 ELSE 0
    ELSE LET mid == (lo + hi) \div 2
             top == CompareRange(a, b, mid + 1, hi)
         IN IF top # 0 THEN top ELSE CompareRange(a, b, lo, mid)

\* -1, 0 or 1 as a < b, a = b or a > b.
Compare(a, b) ==
    IF Len(a) < Len(b) THEN -1
    ELSE IF Len(a) > Len(b) THEN 1
    ELSE CompareRange(a, b, 1, Len(a))

RECURSIVE MulRange(_, _, _, _, _)
MulRange(x, k, lo, hi, c) ==
    IF lo = hi
    THEN LET v == x[lo] * k + c IN [limbs |-> <<v % Base>>, carry |-> v \div Base]
    ELSE LET mid == (lo + hi) \div 2
             low == MulRange(x, k, lo, mid, c)
             high == MulRange(x, k, mid + 1, hi, low.carry)
         IN [limbs |-> low.limbs \o high.limbs, carry |-> high.carry]

\* x * k for 0 < k <= 2^16.
MulSmall(x, k) ==
    IF x = <<>> THEN <<>>
    ELSE LET p == MulRange(x, k, 1, Len(x), 0)
         IN p.limbs \o (IF p.carry = 0 THEN <<>>
                        ELSE IF p.carry < Base THEN <<p.carry>>
                        ELSE <<p.carry % Base, p.carry \div Base>>)

RECURSIVE AddRange(_, _, _, _, _)
AddRange(a, b, lo, hi, c) ==
    IF lo = hi
    THEN LET v == Limb(a, lo) + Limb(b, lo) + c
         IN [limbs |-> <<v % Base>>, carry |-> v \div Base]
    ELSE LET mid == (lo + hi) \div 2
             low == AddRange(a, b, lo, mid, c)
             high == AddRange(a, b, mid + 1, hi, low.carry)
         IN [limbs |-> low.limbs \o high.limbs, carry |-> high.carry]

Add(a, b) ==
    LET n == IF Len(a) > Len(b) THEN Len(a) ELSE Len(b)
    IN IF n = 0 THEN <<>>
       ELSE LET p == AddRange(a, b, 1, n, 0)
            IN p.limbs \o (IF p.carry = 0 THEN <<>> ELSE <<p.carry>>)

RECURSIVE SubRange(_, _, _, _, _)
SubRange(a, b, lo, hi, c) ==
    IF lo = hi
    THEN LET v == a[lo] - Limb(b, lo) - c
         IN IF v < 0 THEN [limbs |-> <<v + Base>>, carry |-> 1]
            ELSE [limbs |-> <<v>>, carry |-> 0]
    ELSE LET mid == (lo + hi) \div 2
             low == SubRange(a, b, lo, mid, c)
             high == SubRange(a, b, mid + 1, hi, low.carry)
         IN [limbs |-> low.limbs \o high.limbs, carry |-> high.carry]

\* a - b for a >= b.
Sub(a, b) == IF a = <<>> THEN <<>> ELSE Trim(SubRange(a, b, 1, Len(a), 0).limbs)

\* x * 10^k.
TimesPow10(x, k) ==
    IF x = <<>> THEN <<>>
    ELSE [i \in 1..(k \div LimbWidth) |-> 0] \o MulSmall(x, 10 ^ (k % LimbWidth))

\* x * 2^k.
RECURSIVE TimesPow2(_, _)
TimesPow2(x, k) ==
    IF x = <<>> THEN <<>>
    ELSE IF k <= 16 THEN MulSmall(x, 2 ^ k)
    ELSE TimesPow2(TimesPow2(x, k \div 2), k - (k \div 2))

One == <<1>>

\* The quotient digit of r / s (r < 10 * s) and what is left of r.
RECURSIVE NextDigit(_, _, _)
NextDigit(r, s, d) ==
    IF Compare(r, s) < 0 THEN [digit |-> d, rest |-> r]
    ELSE NextDigit(Sub(r, s), s, d + 1)

\* The first `count` digits after the point of r / s (r < s), and what is
\* left of r.
RECURSIVE LongDivide(_, _, _)
LongDivide(r, s, count) ==
    IF count = 0 THEN [digits |-> <<>>, rest |-> r]
    ELSE LET step == NextDigit(MulSmall(r, 10), s, 0)
             more == LongDivide(step.rest, s, count - 1)
         IN [digits |-> <<step.digit>> \o more.digits, rest |-> more.rest]

Positive(n) == IF n > 0 THEN n ELSE 0

\* A float that is not a number, and the float beyond every double.
NaN == [nan |-> TRUE]

Infinity == [inf |-> TRUE]

\* A finite float is written by the digits of its repr (no zero at either
\* end; none for 0.0) and the decimal exponent of the first of them.
Zero == [digits |-> <<>>, exp |-> 0]

\* The width of a double's significand, the binary exponent of the least
\* subnormal and the greatest binary exponent of a significand.
MantissaBits == 53

MinBinaryExponent == -1074

MaxBinaryExponent == 971

TwoTo52 == TimesPow2(One, MantissaBits - 1)

TwoTo53 == TimesPow2(One, MantissaBits)

\* The decimal digits that write every significand (2^53 < 10^16).
SignificandDigits == 16

\* float.h: DBL_DIG, a text of up to DBL_DIG significant digits is the
\* repr of the double it is read as, for the decimal exponents of which
\* every number is in the range of the normal doubles.
DBL_DIG == 15

MinNormalExponent10 == -307

MaxNormalExponent10 == 307

\* From 10^309 on every number is beyond the greatest double, and below
\* 10^-324 every number is less than half the least subnormal.
OverflowExponent10 == 309

UnderflowExponent10 == -325

\* Digits beyond this many cannot be where two doubles meet half way:
\* they count only as more than nothing.
MaxSignificant == 800

\* The first binary exponent to try for a number of decimal exponent x
\* (log2(10) is 3.3219...).
FirstExponent(x) ==
    LET estimate == ((x * 33219) \div 10000) - MantissaBits
    IN IF estimate < MinBinaryExponent THEN MinBinaryExponent ELSE estimate

\* How many times t is to be doubled to be more than a.
RECURSIVE Excess(_, _, _)
Excess(a, t, i) == IF Compare(a, t) < 0 THEN i ELSE Excess(a, MulSmall(t, 2), i + 1)

\* The double of significand m and binary exponent e, after the carry of
\* a significand that was rounded up to 2^53.
AfterCarry(m, e) ==
    IF m = <<>> THEN Zero
    ELSE IF m = TwoTo53
    THEN IF e + 1 > MaxBinaryExponent THEN Infinity ELSE [m |-> TwoTo52, b |-> e + 1]
    ELSE IF e > MaxBinaryExponent THEN Infinity
    ELSE [m |-> m, b |-> e]

\* The quotient q of a division by s, rounded to the nearest integer, ties
\* to the even one.
RoundHalfEven(q, s, e) ==
    LET half == Compare(MulSmall(q.rest, 2), s)
        up == half > 0 \/ (half = 0 /\ q.digits[SignificandDigits] % 2 = 1)
    IN AfterCarry(IF up THEN Add(Limbs(q.digits), One) ELSE Limbs(q.digits), e)

\* a / (s / 10^16) rounded: the significand is the 16 digits of a / s.
Divide(a, s, e) == RoundHalfEven(LongDivide(a, s, SignificandDigits), s, e)

\* a / s0 with s0 doubled until the quotient is below 2^53.
Align(a, s0, b0, i) ==
    Divide(a, TimesPow10(TimesPow2(s0, i), SignificandDigits), b0 + i)

Scale(a, s0, b0) == Align(a, s0, b0, Excess(a, TimesPow2(s0, MantissaBits), 0))

\* The double nearest to the number the digits ds (values, the first and
\* the last not zero) write with the decimal exponent x of the first
\* digit, ties to the even significand: m * 2^b, Infinity or Zero.
Nearest(ds, x) ==
    LET b0 == FirstExponent(x)
    IN Scale(TimesPow2(TimesPow10(Limbs(ds), Positive(x - Len(ds) + 1)), Positive(0 - b0)),
             TimesPow2(TimesPow10(One, Positive(Len(ds) - 1 - x)), Positive(b0)),
             b0)

High(r, mp, s, even) ==
    LET c == Compare(Add(r, mp), s) IN IF even THEN c >= 0 ELSE c > 0

Low(r, mm, even) ==
    LET c == Compare(r, mm) IN IF even THEN c <= 0 ELSE c < 0

\* Scales r / s (with its margins) by powers of ten until the first digit
\* is the next one to come; k counts the powers.
RECURSIVE FixUp(_, _, _, _, _, _)
FixUp(r, mp, mm, s, k, even) ==
    IF High(r, mp, s, even)
    THEN FixUp(r, mp, mm, MulSmall(s, 10), k + 1, even)
    ELSE IF ~High(MulSmall(r, 10), MulSmall(mp, 10), s, even)
    THEN FixUp(MulSmall(r, 10), MulSmall(mp, 10), MulSmall(mm, 10), s, k - 1, even)
    ELSE [r |-> r, mp |-> mp, mm |-> mm, s |-> s, k |-> k]

RECURSIVE Generate(_, _, _, _, _)

\* The digit `step` gives is the last one when what is left is within the
\* margin in which every number is read back as the same double.
Emit(step, mp, mm, s, even) ==
    LET d == step.digit
        low == Low(step.rest, mm, even)
        high == High(step.rest, mp, s, even)
        half == Compare(MulSmall(step.rest, 2), s)
    IN IF ~low /\ ~high THEN <<d>> \o Generate(step.rest, mp, mm, s, even)
       ELSE IF low /\ ~high THEN <<d>>
       ELSE IF high /\ ~low THEN <<d + 1>>
       ELSE IF half < 0 \/ (half = 0 /\ d % 2 = 0) THEN <<d>>
       ELSE <<d + 1>>

\* The digits of r / s, one by one.
Generate(r, mp, mm, s, even) ==
    Emit(NextDigit(MulSmall(r, 10), s, 0), MulSmall(mp, 10), MulSmall(mm, 10), s, even)

\* A finite float of the digits ds (values) and the decimal exponent e of
\* the first of them.
Finite(ds, e) == [digits |-> [i \in DOMAIN ds |-> Digit(ds[i])], exp |-> e]

Written(f, even) == Finite(Generate(f.r, f.mp, f.mm, f.s, even), f.k - 1)

\* repr's digits of the double m * 2^b: the fewest that are read back as
\* this double, and of those the nearest to it.
Shortest(m, b) ==
    LET even == m[1] % 2 = 0
        wide == IF m = TwoTo52 /\ b > MinBinaryExponent THEN 1 ELSE 0
        k0 == Len(DigitsOf(m)) + ((b * 30103) \div 100000)
    IN Written(FixUp(TimesPow10(TimesPow2(m, Positive(b) + 1 + wide), Positive(0 - k0)),
                     TimesPow10(TimesPow2(One, Positive(b) + wide), Positive(0 - k0)),
                     TimesPow10(TimesPow2(One, Positive(b)), Positive(0 - k0)),
                     TimesPow10(TimesPow2(One, Positive(0 - b) + 1 + wide), Positive(k0)),
                     k0, even),
               even)

\* The digits that count, as values: those beyond MaxSignificant are as
\* good as one digit that is not zero.
Values(ds) ==
    [i \in 1..(IF Len(ds) > MaxSignificant THEN MaxSignificant + 1 ELSE Len(ds)) |->
        IF i > MaxSignificant THEN 1 ELSE DigitValue(ds[i])]

\* A double as repr writes it.
Shown(d) == IF d = Infinity \/ d = Zero THEN d ELSE Shortest(d.m, d.b)

\* The float read from the digits ds (characters, the first and the last
\* not "0") with the decimal exponent x of the first digit.
Double(ds, x) ==
    IF ds = <<>> THEN Zero
    ELSE IF x >= OverflowExponent10 THEN Infinity
    ELSE IF x <= UnderflowExponent10 THEN Zero
    ELSE IF Len(ds) <= DBL_DIG /\ x >= MinNormalExponent10 /\ x <= MaxNormalExponent10
    THEN [digits |-> ds, exp |-> x]
    ELSE Shown(Nearest(Values(ds), x))

\* float(text): the float, or the ValueError.
float(cs) ==
    LET points == {i \in DOMAIN cs : cs[i] = "."}
        point == IF points = {} THEN Len(cs) + 1 ELSE CHOOSE i \in points : TRUE
        whole == SubSeq(cs, 1, point - 1)
        frac == SubSeq(cs, point + 1, Len(cs))
    IN IF Text(cs) = "nan" THEN [ok |-> TRUE, value |-> NaN]
       ELSE IF Text(cs) = "inf" THEN [ok |-> TRUE, value |-> Infinity]
       ELSE IF /\ Cardinality(points) <= 1
               /\ AllDigits(whole) /\ AllDigits(frac)
               /\ Len(whole) + Len(frac) >= 1
       THEN [ok |-> TRUE,
             value |-> Double(Significant(whole \o frac),
                              Len(whole) - 1 - LeadingZeros(whole \o frac))]
       ELSE [ok |-> FALSE,
             error |-> "could not convert string to float: " \o Text(Repr(cs))]

\* SQLite stores a NaN that is bound to a statement as NULL.
BindReal(v) == IF v = NaN THEN Null ELSE Some(v)

FloatKeys == <<"height", "weight", "temperature">>

IntKeys == <<"bp_systolic", "bp_diastolic", "heart_rate">>

MeasurementKeys == FloatKeys \o IntKeys

\* data.get(key, [''])[0] is not the empty text.
Supplied(data, key) == Get(data, key, <<>>) # <<>>

Parse(data, key) ==
    IF \E i \in DOMAIN FloatKeys : FloatKeys[i] = key
    THEN float(data[key]) ELSE int(data[key])

\* The ValueError of the first measurement, in the order the handler reads
\* them, that does not parse, or "".
RECURSIVE ValueErrorText(_, _)
ValueErrorText(data, keys) ==
    IF keys = <<>> THEN ""
    ELSE IF Supplied(data, Head(keys)) /\ ~Parse(data, Head(keys)).ok
    THEN Parse(data, Head(keys)).error
    ELSE ValueErrorText(data, Tail(keys))

HealthRecordKeys == <<"location_id", "recorded_by">>

HealthRecordRequired == {HealthRecordKeys[i] : i \in DOMAIN HealthRecordKeys}

\* The exception building the INSERT's parameters raises, or "": the values
\* are read in the order location_id, the six measurements, recorded_by.
HealthRecordError(data) ==
    IF KeyErrorText(data, SubSeq(HealthRecordKeys, 1, 1)) # ""
    THEN KeyErrorText(data, SubSeq(HealthRecordKeys, 1, 1))
    ELSE IF ValueErrorText(data, MeasurementKeys) # ""
    THEN ValueErrorText(data, MeasurementKeys)
    ELSE KeyErrorText(data, SubSeq(HealthRecordKeys, 2, 2))

\* The OverflowError cursor.execute raises when it binds the parameters, or
\* "": an int of a measurement that a signed integer of 64 bits cannot hold.
BindError(data) ==
    IF \E i \in DOMAIN IntKeys :
         /\ Supplied(data, IntKeys[i])
         /\ ~FitsSqliteInteger(int(data[IntKeys[i]]).value)
    THEN "Python int too large to convert to SQLite INTEGER"
    ELSE ""

MeasuredForm ==
    [location_id |-> "1", recorded_by |-> "Dr. Test",
     height |-> <<"1", "7", "5", ".", "5">>, weight |-> <<"7", "0", ".", "2">>,
     temperature |-> <<"3", "6", ".", "8">>, bp_systolic |-> <<"1", "2", "0">>,
     bp_diastolic |-> <<"8", "0">>, heart_rate |-> <<"7", "2">>]

MeasurementSet == {MeasurementKeys[i] : i \in DOMAIN MeasurementKeys}

\* 2^63 - 1, the greatest int an INTEGER column stores.
SqliteIntegerMax ==
    <<"9", "2", "2", "3", "3", "7", "2", "0", "3", "6",
      "8", "5", "4", "7", "7", "5", "8", "0", "7">>

HealthRecordForms ==
    {[location_id |-> loc, recorded_by |-> "Dr. Test"] : loc \in {"1", "9"}}
    \cup {[location_id |-> "1"]}
    \cup {MeasuredForm}
    \cup {Without(MeasuredForm, k) : k \in MeasurementSet}
    \cup {[MeasuredForm EXCEPT ![k] = <<"a", "b", "c">>] : k \in MeasurementSet}
    \cup {[MeasuredForm EXCEPT !["height"] = <<"n", "a", "n">>]}
    \cup {[MeasuredForm EXCEPT !["heart_rate"] = n] :
            n \in {SqliteIntegerBound, SqliteIntegerMax}}

\* Measurements at the ends of what float() and int() read: texts of more
\* digits than int() takes, with and without a letter after them, one
\* float() reads as 0.0, one it reads as inf, and one of more digits than a
\* double keeps.
ExtremeRecordForms ==
    {[MeasuredForm EXCEPT !["bp_systolic"] = Repeat("1", MaxStrDigits + 1)],
     [MeasuredForm EXCEPT !["bp_systolic"] = Repeat("0", MaxStrDigits) \o <<"7">>],
     [MeasuredForm EXCEPT !["bp_systolic"] = Repeat("a", MaxStrDigits + 1)],
     [MeasuredForm EXCEPT !["bp_systolic"] = Repeat("1", MaxStrDigits + 1) \o <<"a">>],
     [MeasuredForm EXCEPT !["bp_systolic"] = Repeat("1", MaxStrDigits) \o <<"a">>],
     [MeasuredForm EXCEPT !["temperature"] = <<"0", ".">> \o Repeat("0", 323) \o <<"1">>],
     [MeasuredForm EXCEPT !["weight"] = Repeat("1", 400)],
     [MeasuredForm EXCEPT !["height"] =
         <<"0", ".", "1", "2", "3", "4", "5", "6", "7", "8", "9",
           "0", "1", "2", "3", "4", "5", "6", "7">>],
     [MeasuredForm EXCEPT !["height"] =
         <<"0", ".", "1", "2", "3", "4", "5", "6", "7", "8", "9",
           "0", "1", "2", "3", "4", "5", "6", "6">>]}

\* The forms of the requests that only file a record: one that is stored
\* and one that names no patient's location.
ClinicRecordForms ==
    {MeasuredForm, [location_id |-> "9", recorded_by |-> "Dr. Test"]}

RealColumn(data, key) ==
    IF Supplied(data, key) THEN BindReal(float(data[key]).value) ELSE Null

IntegerColumn(data, key) ==
    IF Supplied(data, key) THEN Some(int(data[key]).value) ELSE Null

HealthRecordRow(recs, patient, data, t) ==
    [id |-> NextRowId(recs), patient_id |-> patient.id,
     location_id |-> IntegerAffinity(data["location_id"]),
     height |-> RealColumn(data, "height"),
     weight |-> RealColumn(data, "weight"),
     temperature |-> RealColumn(data, "temperature"),
     blood_pressure_systolic |-> IntegerColumn(data, "bp_systolic"),
     blood_pressure_diastolic |-> IntegerColumn(data, "bp_diastolic"),
     heart_rate |-> IntegerColumn(data, "heart_rate"),
     notes |-> Get(data, "notes", ""), recorded_by |-> data["recorded_by"],
     recorded_at |-> t]

InsertHealthRecordError(pts, locs, row) ==
    IF ForeignKeys /\ (row.patient_id \notin Ids(pts) \/ row.location_id \notin Ids(locs))
    THEN "FOREIGN KEY constraint failed"
    ELSE ""

(* -------------------------- blood_samples table ----------------------- *)
CollectKeys == <<"collection_location_id", "test_type", "collected_by">>

CollectRequired == {CollectKeys[i] : i \in DOMAIN CollectKeys}

CollectForms ==
    {[collection_location_id |-> loc, test_type |-> "Complete Blood Count (CBC)",
      collected_by |-> "Lab Tech Test"] : loc \in {"1", "9"}}
    \cup {[collection_location_id |-> "1", collected_by |-> "Lab Tech Test"]}

\* Mutant: the sample is filed under the row id of the newest patient.
SampleRow_NewestPatient(samples, code, patient, data, t) ==
    [id |-> NextRowId(samples), sample_id |-> code, patient_id |-> patient.id + 1,
     collection_location_id |-> IntegerAffinity(data["collection_location_id"]),
     test_location_id |-> Null, collected_by |-> data["collected_by"],
     collected_at |-> t, test_type |-> data["test_type"], status |-> "collected",
     results |-> Null, tested_by |-> Null, tested_at |-> Null,
     results_sent_at |-> Null]

\* INSERT INTO blood_samples (...) VALUES (?, ?, ?, ?, ?, 'collected'): the
\* columns the statement does not name are NULL.
SampleRow(samples, code, patient, data, t) ==
    [id |-> NextRowId(samples), sample_id |-> code, patient_id |-> patient.id,
     collection_location_id |-> IntegerAffinity(data["collection_location_id"]),
     test_location_id |-> Null, collected_by |-> data["collected_by"],
     collected_at |-> t, test_type |-> data["test_type"], status |-> "collected",
     results |-> Null, tested_by |-> Null, tested_at |-> Null,
     results_sent_at |-> Null]

\* Mutant: sample_id is not declared UNIQUE.
InsertSampleError_NoUnique(samples, pts, locs, row) ==
    IF ForeignKeys /\ (row.patient_id \notin Ids(pts)
                       \/ row.collection_location_id \notin Ids(locs))
    THEN "FOREIGN KEY constraint failed"
    ELSE ""

InsertSampleError(samples, pts, locs, row) ==
    IF \E i \in DOMAIN samples : samples[i].sample_id = row.sample_id
    THEN "UNIQUE constraint failed: blood_samples.sample_id"
    ELSE IF ForeignKeys /\ (row.patient_id \notin Ids(pts)
                            \/ row.collection_location_id \notin Ids(locs))
    THEN "FOREIGN KEY constraint failed"
    ELSE ""

TestResultsKeys == <<"test_location_id", "results", "tested_by">>

TestResultsRequired == {TestResultsKeys[i] : i \in DOMAIN TestResultsKeys}

TestResultsForms ==
    {[test_location_id |-> "1", results |-> "All normal", tested_by |-> "Dr. Lab Test"],
     [test_location_id |-> "9", results |-> "Low iron", tested_by |-> "Dr. Lab Test"],
     [test_location_id |-> "1", tested_by |-> "Dr. Lab Test"]}

\* Mutant: the SET clause leaves tested_by out.
SetTestResults_NoTester(row, data, t) ==
    [row EXCEPT !.test_location_id = Some(IntegerAffinity(data["test_location_id"])),
                !.results = Some(data["results"]),
                !.tested_at = Some(t),
                !.status = "tested"]

\* The SET clause of handle_update_test_results applied to one row.
SetTestResults(row, data, t) ==
    [row EXCEPT !.test_location_id = Some(IntegerAffinity(data["test_location_id"])),
                !.results = Some(data["results"]),
                !.tested_by = Some(data["tested_by"]),
                !.tested_at = Some(t),
                !.status = "tested"]

\* Mutant: the UPDATE has no WHERE clause.
UpdateMatches_EveryRow(row, code) == TRUE

\* The row filter of handle_update_test_results: WHERE sample_id = ?
UpdateMatches(row, code) == row.sample_id = code

\* Mutant: the statement keeps only the rows it matches.
UpdateTestResults_MatchedOnly(samples, code, data, t) ==
    SelectSeq([i \in DOMAIN samples |-> SetTestResults(samples[i], data, t)],
              LAMBDA row : UpdateMatches(row, code))

UpdateTestResults(samples, code, data, t) ==
    [i \in DOMAIN samples |->
        IF UpdateMatches(samples[i], code)
        THEN SetTestResults(samples[i], data, t) ELSE samples[i]]

UpdateTestResultsError(samples, locs, code, data) ==
    IF ForeignKeys
       /\ (\E i \in DOMAIN samples : UpdateMatches(samples[i], code))
       /\ IntegerAffinity(data["test_location_id"]) \notin Ids(locs)
    THEN "FOREIGN KEY constraint failed"
    ELSE ""

\* handle_send_results' SELECT: the sample joined with its patient,
\* WHERE bs.sample_id = ? AND bs.status = 'tested'.
SelectTestedSample(samples, pts, code) ==
    {[sample |-> samples[ij[1]], patient |-> pts[ij[2]]] :
        ij \in {x \in (DOMAIN samples) \X (DOMAIN pts) :
                  /\ pts[x[2]].id = samples[x[1]].patient_id
                  /\ samples[x[1]].sample_id = code
                  /\ samples[x[1]].status = "tested"}}

\* The columns of blood_samples in the order of the CREATE TABLE, which is
\* the order of bs.* in a fetched row.
BloodSampleColumns ==
    <<"id", "sample_id", "patient_id", "collection_location_id",
      "test_location_id", "collected_by", "collected_at", "test_type",
      "status", "results", "tested_by", "tested_at", "results_sent_at">>

\* The row handle_send_results fetches: bs.*, p.first_name, p.last_name,
\* p.patient_id, p.phone.
SendResultsRow(fetched) ==
    [k \in DOMAIN BloodSampleColumns |-> fetched.sample[BloodSampleColumns[k]]]
    \o <<fetched.patient.first_name, fetched.patient.last_name,
         fetched.patient.patient_id, fetched.patient.phone>>

\* row[i] of Python: from 0, and from the end when i is negative.
Column(row, i) == IF i >= 0 THEN row[i + 1] ELSE row[Len(row) + i + 1]

\* A nullable column inside an f-string.
NoneOr(v) == IF v = Null THEN "None" ELSE v[1]

\* Mutant: the tester's line comes before the results.
ResultsMessage_TesterFirst(fetched) ==
    LET sample == SendResultsRow(fetched) IN
    <<"MEDICAL TEST RESULTS",
      <<"Patient: ", Column(sample, -4) \o " " \o Column(sample, -3)>>,
      <<"Patient ID: ", Column(sample, -2)>>,
      <<"Sample ID: ", Column(sample, 1)>>,
      <<"Test Type: ", Column(sample, 7)>>,
      <<"Tested by: ", NoneOr(Column(sample, 10))>>,
      <<"Results:", NoneOr(Column(sample, 9))>>,
      <<"Test Date: ", NoneOr(Column(sample, 11))>>,
      "For questions, please contact your healthcare provider.">>

\* The message: the banner, the lines of the template in its order, each
\* with the value it interpolates, and the closing line.
ResultsMessage(fetched) ==
    LET sample == SendResultsRow(fetched) IN
    <<"MEDICAL TEST RESULTS",
      <<"Patient: ", Column(sample, -4) \o " " \o Column(sample, -3)>>,
      <<"Patient ID: ", Column(sample, -2)>>,
      <<"Sample ID: ", Column(sample, 1)>>,
      <<"Test Type: ", Column(sample, 7)>>,
      <<"Results:", NoneOr(Column(sample, 9))>>,
      <<"Tested by: ", NoneOr(Column(sample, 10))>>,
      <<"Test Date: ", NoneOr(Column(sample, 11))>>,
      "For questions, please contact your healthcare provider.">>

\* The number the message is sent to: sample[-1].
ResultsPhone(fetched) == Column(SendResultsRow(fetched), -1)

simulate_whatsapp_send(phone, message) == TRUE

\* Mutant: results_sent_at is copied from the collection time.
SetResultsSent_Stale(row, t) ==
    [row EXCEPT !.status = "results_sent", !.results_sent_at = Some(row.collected_at)]

\* The SET clause of handle_send_results applied to one row.
SetResultsSent(row, t) ==
    [row EXCEPT !.status = "results_sent", !.results_sent_at = Some(t)]

MarkResultsSent(samples, code, t) ==
    [i \in DOMAIN samples |->
        IF samples[i].sample_id = code THEN SetResultsSent(samples[i], t)
        ELSE samples[i]]

(* --------------------------- the patient page ------------------------- *)
\* send_patient_details' first SELECT: the patient joined with the
\* location it names, WHERE p.patient_id = ?  (fetchone: the row or none).
SelectPatientWithLocation(pts, locs, code) ==
    {[row |-> pts[ij[1]], location_name |-> locs[ij[2]].name] :
        ij \in {x \in (DOMAIN pts) \X (DOMAIN locs) :
                  /\ pts[x[1]].location_id = locs[x[2]].id
                  /\ pts[x[1]].patient_id = code}}

\* The second SELECT: the health records joined with their location,
\* WHERE hr.patient_id = ?  (the rows fetchall returns; ORDER BY only orders
\* them).
SelectHealthRecords(recs, locs, id) ==
    {[row |-> recs[ij[1]], location_name |-> locs[ij[2]].name] :
        ij \in {x \in (DOMAIN recs) \X (DOMAIN locs) :
                  /\ recs[x[1]].location_id = locs[x[2]].id
                  /\ recs[x[1]].patient_id = id}}

\* The columns of health_records in the order of the CREATE TABLE, which
\* is the order of hr.* in a fetched row.
HealthRecordColumns ==
    <<"id", "patient_id", "location_id", "height", "weight", "temperature",
      "blood_pressure_systolic", "blood_pressure_diastolic", "heart_rate",
      "notes", "recorded_by", "recorded_at">>

\* A row of the second SELECT: hr.*, l.name.
HealthRecordFetched(r) ==
    [k \in DOMAIN HealthRecordColumns |-> r.row[HealthRecordColumns[k]]]
    \o <<r.location_name>>

\* bool(v) of Python for what a REAL and an INTEGER column can hold.
TruthyReal(v) == v # Null /\ v[1] # Zero

TruthyInteger(v) == v # Null /\ v[1] # <<"0">>

\* str(v) of a float inside an f-string: repr's digits, in positional
\* notation when the decimal exponent of the first digit is in -4..15 and
\* in exponent notation otherwise.
PositionalText(v) ==
    LET n == Len(v.digits) IN
    IF v.exp >= 0
    THEN Text(SubSeq(v.digits, 1, IF n < v.exp + 1 THEN n ELSE v.exp + 1)
              \o Repeat("0", v.exp + 1 - n))
         \o "."
         \o (IF n > v.exp + 1 THEN Text(SubSeq(v.digits, v.exp + 2, n)) ELSE "0")
    ELSE "0." \o Text(Repeat("0", 0 - v.exp - 1) \o v.digits)

ExponentText(v) ==
    LET size == IF v.exp < 0 THEN 0 - v.exp ELSE v.exp
    IN v.digits[1]
       \o (IF Len(v.digits) = 1 THEN "" ELSE "." \o Text(Tail(v.digits)))
       \o "e" \o (IF v.exp < 0 THEN "-" ELSE "+")
       \o (IF size < 10 THEN "0" ELSE "") \o Decimal(size)

FloatText(v) ==
    IF v = Infinity THEN "inf"
    ELSE IF v = Zero THEN "0.0"
    ELSE IF v.exp < -4 \/ v.exp >= 16 THEN ExponentText(v) ELSE PositionalText(v)

\* str(n) of an int inside an f-string.
IntText(n) == Text(n)

\* The cells of one row of the health records' table, under the headers
\* Date, Location, Height, Weight, Temperature, BP, Heart Rate, Recorded By.
HealthRecordCells(r) ==
    LET record == HealthRecordFetched(r) IN
    [date |-> Column(record, 11),
     location |-> Column(record, -1),
     height |-> IF TruthyReal(Column(record, 3))
                THEN FloatText(Column(record, 3)[1]) ELSE "-",
     weight |-> IF TruthyReal(Column(record, 4))
                THEN FloatText(Column(record, 4)[1]) ELSE "-",
     temperature |-> IF TruthyReal(Column(record, 5))
                     THEN FloatText(Column(record, 5)[1]) ELSE "-",
     bp |-> IF TruthyReal(Column(record, 5)) /\ TruthyInteger(Column(record, 6))
            THEN FloatText(Column(record, 5)[1]) \o "/" \o IntText(Column(record, 6)[1])
            ELSE "-",
     heart_rate |-> IF TruthyInteger(Column(record, 7))
                    THEN IntText(Column(record, 7)[1]) ELSE "-",
     recorded_by |-> Column(record, 9)]

\* The name LEFT JOIN locations tl ON bs.test_location_id = tl.id gives.
TestLocationName(row, locs) ==
    LET named == {j \in DOMAIN locs : row.test_location_id = Some(locs[j].id)}
    IN IF named = {} THEN Null ELSE Some(locs[CHOOSE j \in named : TRUE].name)

\* The third SELECT: the samples joined with their collection location,
\* WHERE bs.patient_id = ?
SelectBloodSamples(samples, locs, id) ==
    {[row |-> samples[ij[1]], collection_location |-> locs[ij[2]].name,
      test_location |-> TestLocationName(samples[ij[1]], locs)] :
        ij \in {x \in (DOMAIN samples) \X (DOMAIN locs) :
                  /\ samples[x[1]].collection_location_id = locs[x[2]].id
                  /\ samples[x[1]].patient_id = id}}

\* The page: the rows its HTML is rendered from.
Page(body) == [status |-> 200, detail |-> "", location |-> "", body |-> body]

(* ----------------------------- the dashboard -------------------------- *)
\* SELECT COUNT(*) FROM blood_samples WHERE status = 'collected'
CountCollected(samples) ==
    Cardinality({i \in DOMAIN samples : samples[i].status = "collected"})

\* LIMIT 5 of the recent patients' SELECT.
RecentLimit == 5

\* FROM patients p JOIN locations l ON p.location_id = l.id
PatientsWithLocation(pts, locs) ==
    {[row |-> pts[ij[1]], location_name |-> locs[ij[2]].name] :
        ij \in {x \in (DOMAIN pts) \X (DOMAIN locs) :
                  pts[x[1]].location_id = locs[x[2]].id}}

\* ORDER BY p.created_at DESC: every order of the rows that the clause
\* allows (rows of the same second come in an order SQL leaves open).
NewestFirst(rows) ==
    {o \in [1..Cardinality(rows) -> rows] :
        /\ \A i, j \in DOMAIN o : i # j => o[i] # o[j]
        /\ \A i, j \in DOMAIN o :
             i < j => o[i].row.created_at >= o[j].row.created_at}

Limit(o, n) == SubSeq(o, 1, IF Len(o) < n THEN Len(o) ELSE n)

\* What fetchall can return for the recent patients' SELECT.
RecentPatients(pts, locs) ==
    {Limit(o, RecentLimit) : o \in NewestFirst(PatientsWithLocation(pts, locs))}

(* ---------------------------- the form pages -------------------------- *)
\* The columns of patients in the order of the CREATE TABLE, which is the
\* order of SELECT * in a fetched row.
PatientColumns ==
    <<"id", "patient_id", "first_name", "last_name", "date_of_birth", "gender",
      "phone", "email", "address", "emergency_contact", "location_id",
      "created_at">>

\* A row of SELECT * FROM patients.
PatientFetched(row) == [k \in DOMAIN PatientColumns |-> row[PatientColumns[k]]]

\* SELECT id, name FROM locations, as the options of the form's select.
LocationOptions(locs) == [i \in DOMAIN locs |-> <<locs[i].id, locs[i].name>>]

\* send_update_test_results_form's SELECT: the sample joined with its
\* patient, WHERE bs.sample_id = ?
SelectSample(samples, pts, code) ==
    {[sample |-> samples[ij[1]], patient |-> pts[ij[2]]] :
        ij \in {x \in (DOMAIN samples) \X (DOMAIN pts) :
                  /\ pts[x[2]].id = samples[x[1]].patient_id
                  /\ samples[x[1]].sample_id = code}}

\* The row it fetches: bs.*, p.first_name, p.last_name, p.patient_id.
SampleFetched(fetched) ==
    [k \in DOMAIN BloodSampleColumns |-> fetched.sample[BloodSampleColumns[k]]]
    \o <<fetched.patient.first_name, fetched.patient.last_name,
         fetched.patient.patient_id>>

\* `v or ''` inside an f-string, for a nullable text column.
OrEmpty(v) == IF v = Null THEN "" ELSE v[1]

(* ------------------------------ the search ---------------------------- *)
\* A text is a sequence of characters.  A character up to U+007F is written
\* as a string of length one, a character beyond it by its code point
\* ("U+00E9", "U+0178").
LowerLetters ==
    <<"a", "b", "c", "d", "e", "f", "g", "h", "i", "j", "k", "l", "m",
      "n", "o", "p", "q", "r", "s", "t", "u", "v", "w", "x", "y", "z">>

UpperLetters ==
    <<"A", "B", "C", "D", "E", "F", "G", "H", "I", "J", "K", "L", "M",
      "N", "O", "P", "Q", "R", "S", "T", "U", "V", "W", "X", "Y", "Z">>

\* The lower-case letters of U+00E0..U+00FE and their capitals.
LowerLatin1 ==
    <<"U+00E0", "U+00E1", "U+00E2", "U+00E3", "U+00E4", "U+00E5",
      "U+00E6", "U+00E7", "U+00E8", "U+00E9", "U+00EA", "U+00EB",
      "U+00EC", "U+00ED", "U+00EE", "U+00EF", "U+00F0", "U+00F1",
      "U+00F2", "U+00F3", "U+00F4", "U+00F5", "U+00F6", "U+00F8",
      "U+00F9", "U+00FA", "U+00FB", "U+00FC", "U+00FD", "U+00FE">>

UpperLatin1 ==
    <<"U+00C0", "U+00C1", "U+00C2", "U+00C3", "U+00C4", "U+00C5",
      "U+00C6", "U+00C7", "U+00C8", "U+00C9", "U+00CA", "U+00CB",
      "U+00CC", "U+00CD", "U+00CE", "U+00CF", "U+00D0", "U+00D1",
      "U+00D2", "U+00D3", "U+00D4", "U+00D5", "U+00D6", "U+00D8",
      "U+00D9", "U+00DA", "U+00DB", "U+00DC", "U+00DD", "U+00DE">>

Position(letters, c) == CHOOSE k \in DOMAIN letters : letters[k] = c

Among(letters, c) == \E k \in DOMAIN letters : letters[k] = c

\* The characters beyond U+00FF that the texts are made of, besides the
\* blanks among them: capitals, the letters they are the capitals of, and
\* a character without case.
WideLetters ==
    {"U+0100", "U+0101", "U+0131", "U+0178", "U+017F", "U+0391",
     "U+039C", "U+03B1", "U+4E2D", "U+FB01"}

\* The characters str.upper turns one character into: one capital, more
\* than one for the sharp s and the ligature fi, the character itself if it
\* has no capital.
UpperCharacters(c) ==
    IF Among(LowerLetters, c) THEN <<UpperLetters[Position(LowerLetters, c)]>>
    ELSE IF Among(LowerLatin1, c) THEN <<UpperLatin1[Position(LowerLatin1, c)]>>
    ELSE IF c = "U+00DF" THEN <<"S", "S">>
    ELSE IF c = "U+00B5" THEN <<"U+039C">>
    ELSE IF c = "U+00FF" THEN <<"U+0178">>
    ELSE IF c = "U+0101" THEN <<"U+0100">>
    ELSE IF c = "U+0131" THEN <<"I">>
    ELSE IF c = "U+017F" THEN <<"S">>
    ELSE IF c = "U+03B1" THEN <<"U+0391">>
    ELSE IF c = "U+FB01" THEN <<"F", "I">>
    ELSE <<c>>

\* str.upper on one character.
UpperChar(c) == Text(UpperCharacters(c))

RECURSIVE upper(_)
upper(cs) == IF cs = <<>> THEN <<>> ELSE UpperCharacters(Head(cs)) \o upper(Tail(cs))

\* The characters str.isspace holds of beyond U+00FF.
WideWhitespace ==
    {"U+1680", "U+2000", "U+2001", "U+2002", "U+2003", "U+2004",
     "U+2005", "U+2006", "U+2007", "U+2008", "U+2009", "U+200A",
     "U+2028", "U+2029", "U+202F", "U+205F", "U+3000"}

\* The characters str.strip removes from both ends, those str.isspace
\* holds of: tab, line feed, carriage return, form feed, vertical tab,
\* U+001C..U+001F, space, U+0085, U+00A0 and the blanks beyond U+00FF.
Whitespace ==
    {" ", "\t", "\n", "\r", "\f", "", "", "", "", "",
     "U+0085", "U+00A0"}
    \cup WideWhitespace

\* The characters that have no encoding in latin-1.
BeyondLatin1 == WideLetters \cup WideWhitespace

RECURSIVE lstrip(_)
lstrip(cs) ==
    IF cs # <<>> /\ Head(cs) \in Whitespace THEN lstrip(Tail(cs)) ELSE cs

RECURSIVE rstrip(_)
rstrip(cs) ==
    IF cs # <<>> /\ cs[Len(cs)] \in Whitespace
    THEN rstrip(SubSeq(cs, 1, Len(cs) - 1))
    ELSE cs

strip(cs) == rstrip(lstrip(cs))

\* The characters of the codes the issuers format: the prefix, then the
\* decimal digits of the number, left-padded with zeros to `width` (never
\* truncated).
RECURSIVE DigitChars(_, _)
DigitChars(n, width) ==
    IF n < 10 /\ width <= 1 THEN <<Digit(n)>>
    ELSE Append(DigitChars(n \div 10, width - 1), Digit(n % 10))

PatientCodeChars(k) == <<"P", "A", "T">> \o DigitChars(k, CodeWidth)

SampleCodeChars(k) == <<"B", "S">> \o DigitChars(k, CodeWidth)

\* What is typed in the search form: codes as issued, in lower case, in
\* mixed case between blanks, between a form feed and a no-break space,
\* between ideographic spaces, with a blank inside, after the text of a
\* percent-encoded blank, with a letter whose capital is two letters
\* (sharp s, ligature fi), is in latin-1 (e acute) or is beyond it
\* (y diaeresis, micro sign), with a character without case beyond
\* latin-1, a code of no row, and a blank alone.
SearchTexts ==
    {PatientCodeChars(k) : k \in 1..MaxPatients}
    \cup {<<"p", "a", "t">> \o DigitChars(k, CodeWidth) : k \in 1..MaxPatients}
    \cup {<<" ", "P", "a", "t">> \o DigitChars(1, CodeWidth) \o <<" ", "\t">>,
          <<"\f", "p", "a", "t">> \o DigitChars(1, CodeWidth) \o <<"U+00A0">>,
          <<"U+3000", "p", "a", "t">> \o DigitChars(1, CodeWidth) \o <<"U+3000">>,
          <<"p", "a", "t", " ">> \o DigitChars(1, CodeWidth),
          <<"%", "2", "0", "P", "a", "t">> \o DigitChars(1, CodeWidth),
          <<"p", "a", "U+00DF">> \o DigitChars(1, CodeWidth),
          <<"p", "a", "U+FB01">> \o DigitChars(1, CodeWidth),
          <<"p", "a", "U+00E9">> \o DigitChars(1, CodeWidth),
          <<"p", "a", "U+00FF">> \o DigitChars(1, CodeWidth),
          <<"p", "a", "U+00B5">> \o DigitChars(1, CodeWidth),
          <<"p", "a", "U+4E2D">> \o DigitChars(1, CodeWidth),
          <<"p", "a", "t">> \o DigitChars(999999, CodeWidth),
          <<" ">>}

\* The search form filled in, and the form with its field left blank.
SearchForms ==
    {[patient_id |-> cs] : cs \in SearchTexts}
    \cup {Without([patient_id |-> <<>>], "patient_id")}

\* send_header encodes the value in latin-1: the UnicodeEncodeError a
\* character without an encoding raises, or "".
HeaderError(cs) ==
    IF \E i \in DOMAIN cs : cs[i] \in BeyondLatin1
    THEN "UnicodeEncodeError"
    ELSE ""

(* ------------------------------- actions ------------------------------ *)
Init ==
    /\ locations = init_database(<<>>, 0)
    /\ patients = <<>>
    /\ health_records = <<>>
    /\ blood_samples = <<>>
    /\ now = 0
    /\ pc = [s \in Servers |-> "idle"]
    /\ req = [s \in Servers |-> Idle]
    /\ resp = NoResp
    /\ outbox = <<>>
    /\ conns = [s \in Servers |-> 0]
    /\ locked = [s \in Servers |-> FALSE]

\* The steps at which a process is between two statements with a
\* connection open: init_database after its SELECT COUNT(*),
\* handle_collect_blood_sample after its SELECT and handle_send_results
\* after its SELECT.
Holding ==
    {"start_insert", "collect_count", "collect_insert", "send_deliver", "send_mark"}

InProgress(s) == IF pc[s] \in Holding THEN 1 ELSE 0

\* The connections of a process that no handler holds any more and that
\* were never closed: they stay open until the interpreter finalises them
\* or the process ends.
Unclosed(s) == conns[s] - InProgress(s)

RECURSIVE TotalUnclosed(_)
TotalUnclosed(S) ==
    IF S = {} THEN 0
    ELSE LET s == CHOOSE o \in S : TRUE IN Unclosed(s) + TotalUnclosed(S \ {s})

\* sqlite3.connect, as long as fewer than MaxUnclosed connections are left
\* unclosed.
CanConnect == TotalUnclosed(Servers) < MaxUnclosed

\* A handler opened a connection and returned without conn.close().
LeftOpen(s) == conns' = [conns EXCEPT ![s] = @ + 1] /\ UNCHANGED locked

\* A handler opened a connection and closed it.
OpenedAndClosed == UNCHANGED <<conns, locked>>

\* A statement that writes begins a transaction, which takes the write
\* lock of the database file.  When the statement fails on a constraint the
\* handler returns without rollback, commit or close: the transaction, and
\* the lock with it, lasts as long as the connection.
KeepsLock(s) == locked' = [locked EXCEPT ![s] = TRUE]

\* A connection of some process holds the write lock.
Locked == \E s \in Servers : locked[s]

\* While the lock is held, a statement that writes through another
\* connection waits for it (sqlite3.connect's timeout) and then raises this.
Busy == "database is locked"

\* The interpreter's garbage collector finalises connections that no
\* handler refers to, some of them or all, which closes them; closing the
\* one that holds the write lock rolls its transaction back.
CollectGarbage(s) ==
    /\ Unclosed(s) > 0
    /\ \E k \in 1..Unclosed(s), l \in BOOLEAN :
         /\ conns' = [conns EXCEPT ![s] = @ - k]
         /\ IF locked[s] /\ k < Unclosed(s) THEN TRUE ELSE ~l
         /\ locked' = [locked EXCEPT ![s] = l]
    /\ UNCHANGED <<locations, patients, health_records, blood_samples,
                   now, pc, req, resp, outbox>>

\* The handler returns: its locals are gone and its response is the latest
\* one a client received.
Finish(s, r) ==
    /\ pc' = [pc EXCEPT ![s] = "idle"]
    /\ req' = [req EXCEPT ![s] = Idle]
    /\ resp' = r

Continue(s, label, locals) ==
    /\ pc' = [pc EXCEPT ![s] = label]
    /\ req' = [req EXCEPT ![s] = locals]
    /\ UNCHANGED resp

\* The clock CURRENT_TIMESTAMP reads.
Tick ==
    /\ now < MaxTime
    /\ now' = now + 1
    /\ UNCHANGED <<locations, patients, health_records, blood_samples,
                   pc, req, resp, outbox, conns, locked>>

\* handle_register_patient, line 371: the code is computed from the row count.
RegisterStart(s, data) ==
    /\ pc[s] = "idle"
    /\ Len(patients) < MaxPatients
    /\ CanConnect
    /\ Continue(s, "register_insert",
                [op |-> "register", data |-> data,
                 patient_id |-> generate_patient_id(patients)])
    /\ OpenedAndClosed
    /\ UNCHANGED <<locations, patients, health_records, blood_samples, now, outbox>>

\* handle_register_patient, lines 373-400: the INSERT and the response.
RegisterInsert(s) ==
    /\ pc[s] = "register_insert"
    /\ IF ~Has(req[s].data, RegisterRequired)
       THEN /\ Finish(s, Error(500, "Registration failed: " \o KeyErrorText(req[s].data, RegisterKeys)))
            /\ UNCHANGED patients
            /\ LeftOpen(s)
       ELSE IF Locked
       THEN /\ Finish(s, Error(500, "Registration failed: " \o Busy))
            /\ UNCHANGED patients
            /\ LeftOpen(s)
       ELSE LET row == PatientRow(patients, req[s].patient_id, req[s].data, now)
                err == InsertPatientError(patients, locations, row)
            IN IF err # ""
               THEN /\ Finish(s, Error(500, "Registration failed: " \o err))
                    /\ UNCHANGED patients
                    /\ conns' = [conns EXCEPT ![s] = @ + 1]
                    /\ KeepsLock(s)
               ELSE /\ patients' = Append(patients, row)
                    /\ Finish(s, Redirect("/patient/" \o req[s].patient_id))
                    /\ OpenedAndClosed
    /\ UNCHANGED <<locations, health_records, blood_samples, now, outbox>>

\* handle_add_location: one INSERT.
AddLocation(s, data) ==
    /\ pc[s] = "idle"
    /\ Len(locations) < MaxLocations
    /\ CanConnect
    /\ IF ~Has(data, {"name"})
       THEN /\ Finish(s, Error(500, "Failed to add location: " \o KeyErrorText(data, <<"name">>)))
            /\ UNCHANGED locations
            /\ LeftOpen(s)
       ELSE IF Locked
       THEN /\ Finish(s, Error(500, "Failed to add location: " \o Busy))
            /\ UNCHANGED locations
            /\ LeftOpen(s)
       ELSE /\ locations' = Append(locations, LocationRow(locations, data, now))
            /\ Finish(s, Redirect("/locations"))
            /\ OpenedAndClosed
    /\ UNCHANGED <<patients, health_records, blood_samples, now, outbox>>

\* handle_add_health_record: the patient lookup and the INSERT.  No row of
\* patients is ever removed, so the lookup and the INSERT are one step.
\* The parameters are built and bound before the statement asks for the
\* write lock.
AddHealthRecord(s, code, data) ==
    /\ pc[s] = "idle"
    /\ Len(health_records) < MaxHealthRecords
    /\ CanConnect
    /\ LET found == SelectPatient(patients, code) IN
       IF found = {}
       THEN /\ Finish(s, Error(404, "Patient not found"))
            /\ UNCHANGED health_records
            /\ LeftOpen(s)
       ELSE IF HealthRecordError(data) # ""
       THEN /\ Finish(s, Error(500, "Failed to add health record: " \o HealthRecordError(data)))
            /\ UNCHANGED health_records
            /\ LeftOpen(s)
       ELSE IF BindError(data) # ""
       THEN /\ Finish(s, Error(500, "Failed to add health record: " \o BindError(data)))
            /\ UNCHANGED health_records
            /\ LeftOpen(s)
       ELSE IF Locked
       THEN /\ Finish(s, Error(500, "Failed to add health record: " \o Busy))
            /\ UNCHANGED health_records
            /\ LeftOpen(s)
       ELSE LET patient == CHOOSE p \in found : TRUE
                row == HealthRecordRow(health_records, patient, data, now)
                err == InsertHealthRecordError(patients, locations, row)
            IN IF err # ""
               THEN /\ Finish(s, Error(500, "Failed to add health record: " \o err))
                    /\ UNCHANGED health_records
                    /\ conns' = [conns EXCEPT ![s] = @ + 1]
                    /\ KeepsLock(s)
               ELSE /\ health_records' = Append(health_records, row)
                    /\ Finish(s, Redirect("/patient/" \o code))
                    /\ OpenedAndClosed
    /\ UNCHANGED <<locations, patients, blood_samples, now, outbox>>

\* handle_collect_blood_sample, lines 1042-1051: the connection and the
\* patient lookup.
CollectRequest(s, code, data) ==
    /\ pc[s] = "idle"
    /\ CanConnect
    /\ LET found == SelectPatient(patients, code) IN
       IF found = {}
       THEN Finish(s, Error(404, "Patient not found"))
       ELSE Continue(s, "collect_count",
                     [op |-> "collect", path |-> code, data |-> data,
                      patient |-> CHOOSE p \in found : TRUE])
    /\ conns' = [conns EXCEPT ![s] = @ + 1]
    /\ UNCHANGED <<locations, patients, health_records, blood_samples, now, outbox, locked>>

\* The collections in progress that have found their patient: each of
\* them goes on to its INSERT.
Collecting ==
    Cardinality({s \in Servers : pc[s] \in {"collect_count", "collect_insert"}})

\* A collection is requested while the samples stored and the collections
\* in progress are fewer than MaxSamples; once requested, nothing holds it
\* up.
CollectStart(s, code, data) ==
    /\ Len(blood_samples) + Collecting < MaxSamples
    /\ CollectRequest(s, code, data)

\* handle_collect_blood_sample, line 1053: generate_sample_id computes the
\* code from the row count, which it reads through a connection of its own
\* and closes.
CollectCount(s) ==
    /\ pc[s] = "collect_count"
    /\ Continue(s, "collect_insert",
                [op |-> "collect", path |-> req[s].path, data |-> req[s].data,
                 patient |-> req[s].patient,
                 sample_id |-> generate_sample_id(blood_samples)])
    /\ OpenedAndClosed
    /\ UNCHANGED <<locations, patients, health_records, blood_samples, now, outbox>>

\* handle_collect_blood_sample, lines 1055-1075: the INSERT and the response.
CollectInsert(s) ==
    /\ pc[s] = "collect_insert"
    /\ IF ~Has(req[s].data, CollectRequired)
       THEN /\ Finish(s, Error(500, "Failed to collect blood sample: " \o KeyErrorText(req[s].data, CollectKeys)))
            /\ UNCHANGED <<blood_samples, conns, locked>>
       ELSE IF Locked
       THEN /\ Finish(s, Error(500, "Failed to collect blood sample: " \o Busy))
            /\ UNCHANGED <<blood_samples, conns, locked>>
       ELSE LET row == SampleRow(blood_samples, req[s].sample_id, req[s].patient,
                                 req[s].data, now)
                err == InsertSampleError(blood_samples, patients, locations, row)
            IN IF err # ""
               THEN /\ Finish(s, Error(500, "Failed to collect blood sample: " \o err))
                    /\ UNCHANGED <<blood_samples, conns>>
                    /\ KeepsLock(s)
               ELSE /\ blood_samples' = Append(blood_samples, row)
                    /\ Finish(s, Redirect("/patient/" \o req[s].path))
                    /\ conns' = [conns EXCEPT ![s] = @ - 1]
                    /\ UNCHANGED locked
    /\ UNCHANGED <<locations, patients, health_records, now, outbox>>

\* handle_update_test_results: one UPDATE.
UpdateResults(s, code, data) ==
    /\ pc[s] = "idle"
    /\ CanConnect
    /\ IF ~Has(data, TestResultsRequired)
       THEN /\ Finish(s, Error(500, "Failed to update test results: " \o KeyErrorText(data, TestResultsKeys)))
            /\ UNCHANGED blood_samples
            /\ LeftOpen(s)
       ELSE IF Locked
       THEN /\ Finish(s, Error(500, "Failed to update test results: " \o Busy))
            /\ UNCHANGED blood_samples
            /\ LeftOpen(s)
       ELSE LET err == UpdateTestResultsError(blood_samples, locations, code, data)
            IN IF err # ""
               THEN /\ Finish(s, Error(500, "Failed to update test results: " \o err))
                    /\ UNCHANGED blood_samples
                    /\ conns' = [conns EXCEPT ![s] = @ + 1]
                    /\ KeepsLock(s)
               ELSE /\ blood_samples' = UpdateTestResults(blood_samples, code, data, now)
                    /\ Finish(s, Redirect("/blood_samples"))
                    /\ OpenedAndClosed
    /\ UNCHANGED <<locations, patients, health_records, now, outbox>>

\* handle_send_results, lines 1198-1212: the connection and the SELECT, which
\* fetches the sample if it is tested.
SendResultsStart(s, code) ==
    /\ pc[s] = "idle"
    /\ Len(outbox) < MaxSent
    /\ CanConnect
    /\ LET found == SelectTestedSample(blood_samples, patients, code) IN
       IF found = {}
       THEN Finish(s, Error(404, "Sample not found or not tested"))
       ELSE Continue(s, "send_deliver",
                     [op |-> "send_results", path |-> code,
                      sample |-> CHOOSE f \in found : TRUE])
    /\ conns' = [conns EXCEPT ![s] = @ + 1]
    /\ UNCHANGED <<locations, patients, health_records, blood_samples, now, outbox, locked>>

\* handle_send_results, lines 1215-1249, given what the send returned: the
\* message goes out; after a send that succeeded the handler goes on to its
\* UPDATE, after one that failed it answers the same redirect a completed
\* delivery answers.
SendResultsOutcome(s, success) ==
    /\ pc[s] = "send_deliver"
    /\ outbox' = Append(outbox, [phone |-> ResultsPhone(req[s].sample),
                                 message |-> ResultsMessage(req[s].sample)])
    /\ IF success
       THEN Continue(s, "send_mark", req[s]) /\ UNCHANGED conns
       ELSE Finish(s, Redirect("/blood_samples"))
            /\ conns' = [conns EXCEPT ![s] = @ - 1]
    /\ UNCHANGED <<locations, patients, health_records, blood_samples, now, locked>>

\* The send of the program is simulate_whatsapp_send.
SendResultsDeliver(s) ==
    SendResultsOutcome(s, simulate_whatsapp_send(ResultsPhone(req[s].sample),
                                                 ResultsMessage(req[s].sample)))

\* handle_send_results, lines 1235-1252: the UPDATE that marks the sample,
\* the commit and the response.
SendResultsMark(s) ==
    /\ pc[s] = "send_mark"
    /\ IF Locked
       THEN /\ Finish(s, Error(500, "Failed to send results: " \o Busy))
            /\ UNCHANGED <<blood_samples, conns>>
       ELSE /\ blood_samples' = MarkResultsSent(blood_samples, req[s].path, now)
            /\ Finish(s, Redirect("/blood_samples"))
            /\ conns' = [conns EXCEPT ![s] = @ - 1]
    /\ UNCHANGED <<locations, patients, health_records, now, outbox, locked>>

\* send_patient_details: the three SELECTs of one connection.
PatientDetails(s, code) ==
    /\ pc[s] = "idle"
    /\ CanConnect
    /\ LET found == SelectPatientWithLocation(patients, locations, code) IN
       IF found = {}
       THEN Finish(s, Error(404, "Patient not found")) /\ LeftOpen(s)
       ELSE LET patient == CHOOSE p \in found : TRUE IN
            OpenedAndClosed /\
            Finish(s, Page([patient |-> patient,
                            health_records |->
                                SelectHealthRecords(health_records, locations, patient.row.id),
                            health_record_cells |->
                                [r \in SelectHealthRecords(health_records, locations,
                                                           patient.row.id) |->
                                    HealthRecordCells(r)],
                            blood_samples |->
                                SelectBloodSamples(blood_samples, locations, patient.row.id)]))
    /\ UNCHANGED <<locations, patients, health_records, blood_samples, now, outbox>>

\* The form pages of a patient: the patient looked up by the code the path
\* ends with, then the locations to choose from.
PatientForm(s, code, title, action) ==
    /\ pc[s] = "idle"
    /\ CanConnect
    /\ LET found == SelectPatient(patients, code) IN
       IF found = {}
       THEN Finish(s, Error(404, "Patient not found")) /\ LeftOpen(s)
       ELSE LET patient == PatientFetched(CHOOSE p \in found : TRUE) IN
            OpenedAndClosed /\
            Finish(s, Page([title |-> title,
                            back |-> "/patient/" \o code,
                            patient_line |-> <<Column(patient, 2), Column(patient, 3),
                                               Column(patient, 1)>>,
                            action |-> action \o code,
                            location_options |-> LocationOptions(locations)]))
    /\ UNCHANGED <<locations, patients, health_records, blood_samples, now, outbox>>

\* send_add_health_record_form
AddHealthRecordForm(s, code) ==
    PatientForm(s, code, "Add Health Record", "/add_health_record/")

\* send_collect_blood_sample_form
CollectBloodSampleForm(s, code) ==
    PatientForm(s, code, "Collect Blood Sample", "/collect_blood_sample/")

\* send_update_test_results_form: the sample looked up by the code the path
\* ends with, whatever its status, then the locations to choose from.
UpdateTestResultsForm(s, code) ==
    /\ pc[s] = "idle"
    /\ CanConnect
    /\ LET found == SelectSample(blood_samples, patients, code) IN
       IF found = {}
       THEN Finish(s, Error(404, "Sample not found")) /\ LeftOpen(s)
       ELSE LET sample == SampleFetched(CHOOSE f \in found : TRUE) IN
            OpenedAndClosed /\
            Finish(s, Page([title |-> "Update Test Results",
                            back |-> "/blood_samples",
                            sample_id |-> Column(sample, 1),
                            patient_line |-> <<Column(sample, -3), Column(sample, -2),
                                               Column(sample, -1)>>,
                            test_type |-> Column(sample, 7),
                            action |-> "/update_test_results/" \o code,
                            location_options |-> LocationOptions(locations),
                            tested_by |-> OrEmpty(Column(sample, 10)),
                            results |-> OrEmpty(Column(sample, 9))]))
    /\ UNCHANGED <<locations, patients, health_records, blood_samples, now, outbox>>

\* send_dashboard: the three counts and the recent patients.
Dashboard(s) ==
    /\ pc[s] = "idle"
    /\ CanConnect
    /\ OpenedAndClosed
    /\ \E recent \in RecentPatients(patients, locations) :
         Finish(s, Page([total_patients |-> Len(patients),
                         total_locations |-> Len(locations),
                         pending_samples |-> CountCollected(blood_samples),
                         recent_patients |-> recent]))
    /\ UNCHANGED <<locations, patients, health_records, blood_samples, now, outbox>>

\* A request whose handler raised outside every try: the server drops the
\* connection and the client gets no response.
Unanswered(msg) == [status |-> 0, detail |-> msg, location |-> ""]

\* handle_search_patient: the typed code, stripped and upper-cased, is the
\* end of the path the client is sent to; the status line and the header
\* are sent together, and neither is if the header cannot be encoded.
Search(s, data) ==
    /\ pc[s] = "idle"
    /\ IF ~Has(data, {"patient_id"})
       THEN Finish(s, Unanswered("KeyError: " \o KeyErrorText(data, <<"patient_id">>)))
       ELSE IF HeaderError(upper(strip(data["patient_id"]))) # ""
       THEN Finish(s, Unanswered(HeaderError(upper(strip(data["patient_id"])))))
       ELSE Finish(s, Redirect("/patient/" \o Text(upper(strip(data["patient_id"])))))
    /\ UNCHANGED <<locations, patients, health_records, blood_samples, now, outbox, conns, locked>>

\* The forms with their required fields filled in.
ClinicCollectForms == {f \in CollectForms : Has(f, CollectRequired)}

ClinicTestResultsForms == {f \in TestResultsForms : Has(f, TestResultsRequired)}

\* The forms of the requests that race: those that name the seeded
\* location, complete or with a field left blank.
RaceRegisterForms == {f \in RegisterForms : Get(f, "location_id", "") = "1"}

RaceCollectForms == {f \in CollectForms : Get(f, "collection_location_id", "") = "1"}

Register(s) ==
    \/ \E data \in RaceRegisterForms : RegisterStart(s, data)
    \/ RegisterInsert(s)

Collect(s) ==
    \/ \E code \in PatientIdPaths, data \in RaceCollectForms : CollectStart(s, code, data)
    \/ CollectCount(s)
    \/ CollectInsert(s)

Update(s) ==
    \E code \in SampleIdPaths, data \in ClinicTestResultsForms : UpdateResults(s, code, data)

Send(s) ==
    \/ \E code \in SampleIdPaths : SendResultsStart(s, code)
    \/ SendResultsDeliver(s)
    \/ SendResultsMark(s)

Handle(s) == Register(s) \/ Collect(s) \/ Update(s) \/ Send(s)

\* Requests that register patients and run the blood-sample workflow,
\* handled by processes whose statements interleave.
Next == Tick \/ (\E s \in Servers : CollectGarbage(s)) \/ \E s \in Servers : Handle(s)

Spec == Init /\ [][Next]_vars

\* The registrations and the collections alone, handled by processes whose
\* statements interleave, up to MaxRaceSamples samples: codes are computed
\* from counts that other processes change before the INSERT.
NextCodes ==
    \/ Tick
    \/ \E s \in Servers : CollectGarbage(s)
    \/ \E s \in Servers, data \in RaceRegisterForms : RegisterStart(s, data)
    \/ \E s \in Servers : RegisterInsert(s)
    \/ \E s \in Servers, code \in PatientIdPaths, data \in RaceCollectForms :
         /\ Len(blood_samples) + Collecting < MaxRaceSamples
         /\ CollectRequest(s, code, data)
    \/ \E s \in Servers : CollectCount(s)
    \/ \E s \in Servers : CollectInsert(s)

SpecCodes == Init /\ [][NextCodes]_vars

\* main(): one TCPServer process, which handles one request at a time.
MainProcess == {s \in Servers : \A o \in Servers : s <= o}

NextSeq ==
    \/ Tick
    \/ \E s \in MainProcess : CollectGarbage(s)
    \/ \E s \in MainProcess, data \in RegisterForms : RegisterStart(s, data)
    \/ \E s \in MainProcess : RegisterInsert(s)
    \/ \E s \in MainProcess, code \in PatientIdPaths, data \in CollectForms :
         CollectStart(s, code, data)
    \/ \E s \in MainProcess : CollectCount(s)
    \/ \E s \in MainProcess : CollectInsert(s)
    \/ \E s \in MainProcess, code \in SampleIdPaths, data \in TestResultsForms :
         UpdateResults(s, code, data)
    \/ \E s \in MainProcess, code \in SampleIdPaths : SendResultsStart(s, code)
    \/ \E s \in MainProcess : SendResultsDeliver(s)
    \/ \E s \in MainProcess : SendResultsMark(s)

SpecSeq == Init /\ [][NextSeq]_vars

\* The same process with the send replaced by a gateway that can report
\* failure: what the send returns is the gateway's choice.
SendOutcomes == BOOLEAN

NextGateway ==
    \/ Tick
    \/ \E s \in MainProcess : CollectGarbage(s)
    \/ \E s \in MainProcess, data \in RegisterForms : RegisterStart(s, data)
    \/ \E s \in MainProcess : RegisterInsert(s)
    \/ \E s \in MainProcess, code \in PatientIdPaths, data \in CollectForms :
         CollectStart(s, code, data)
    \/ \E s \in MainProcess : CollectCount(s)
    \/ \E s \in MainProcess : CollectInsert(s)
    \/ \E s \in MainProcess, code \in SampleIdPaths, data \in TestResultsForms :
         UpdateResults(s, code, data)
    \/ \E s \in MainProcess, code \in SampleIdPaths : SendResultsStart(s, code)
    \/ \E s \in MainProcess, success \in SendOutcomes : SendResultsOutcome(s, success)
    \/ \E s \in MainProcess : SendResultsMark(s)

SpecGateway == Init /\ [][NextGateway]_vars

\* The same process, serving the collection and the testing of up to
\* MaxLabSamples samples.
NextLab ==
    \/ Tick
    \/ \E s \in MainProcess : CollectGarbage(s)
    \/ \E s \in MainProcess, data \in RegisterForms : RegisterStart(s, data)
    \/ \E s \in MainProcess : RegisterInsert(s)
    \/ \E s \in MainProcess, code \in PatientIdPaths, data \in CollectForms :
         /\ Len(blood_samples) < MaxLabSamples
         /\ CollectRequest(s, code, data)
    \/ \E s \in MainProcess : CollectCount(s)
    \/ \E s \in MainProcess : CollectInsert(s)
    \/ \E s \in MainProcess, code \in LabSampleIdPaths, data \in TestResultsForms :
         UpdateResults(s, code, data)

SpecLab == Init /\ [][NextLab]_vars

\* The same process, serving the requests that fill the registry:
\* locations and patients.
NextRegistry ==
    \/ Tick
    \/ \E s \in MainProcess : CollectGarbage(s)
    \/ \E s \in MainProcess, data \in RegisterForms \cup IncompleteRegisterForms :
         RegisterStart(s, data)
    \/ \E s \in MainProcess : RegisterInsert(s)
    \/ \E s \in MainProcess, data \in LocationForms : AddLocation(s, data)

SpecRegistry == Init /\ [][NextRegistry]_vars

\* The same process, serving the requests about the patients' records:
\* registrations, health records and the patient page.
NextRecords ==
    \/ Tick
    \/ \E s \in MainProcess : CollectGarbage(s)
    \/ \E s \in MainProcess, data \in RegisterForms : RegisterStart(s, data)
    \/ \E s \in MainProcess : RegisterInsert(s)
    \/ \E s \in MainProcess, code \in PatientIdPaths, data \in HealthRecordForms :
         AddHealthRecord(s, code, data)
    \/ \E s \in MainProcess, code \in PatientIdPaths : PatientDetails(s, code)

SpecRecords == Init /\ [][NextRecords]_vars

\* The same process, serving one patient's health records with
\* measurements at the ends of what float() and int() read.
NextMeasure ==
    \/ \E s \in MainProcess : CollectGarbage(s)
    \/ \E s \in MainProcess, data \in {FullRegisterForm("1")} : RegisterStart(s, data)
    \/ \E s \in MainProcess : RegisterInsert(s)
    \/ \E s \in MainProcess, code \in PatientIdPaths, data \in ExtremeRecordForms :
         AddHealthRecord(s, code, data)
    \/ \E s \in MainProcess, code \in PatientIdPaths : PatientDetails(s, code)

SpecMeasure == Init /\ [][NextMeasure]_vars

\* A database file that does not exist yet and no process running.
InitFresh ==
    /\ locations = <<>>
    /\ patients = <<>>
    /\ health_records = <<>>
    /\ blood_samples = <<>>
    /\ now = 0
    /\ pc = [s \in Servers |-> "stopped"]
    /\ req = [s \in Servers |-> Idle]
    /\ resp = NoResp
    /\ outbox = <<>>
    /\ conns = [s \in Servers |-> 0]
    /\ locked = [s \in Servers |-> FALSE]

\* Mutant: init_database inserts the default location without looking at
\* the count.
Start_NoCount(s) ==
    /\ pc[s] = "stopped"
    /\ pc' = [pc EXCEPT ![s] = "start_insert"]
    /\ conns' = [conns EXCEPT ![s] = @ + 1]
    /\ UNCHANGED <<locations, patients, health_records, blood_samples,
                   now, req, resp, outbox, locked>>

\* main() calls init_database, lines 21-94: the connection, the four
\* CREATE TABLE IF NOT EXISTS and SELECT COUNT(*) FROM locations.  With a
\* location counted, init_database commits and closes and the server takes
\* requests; with none it goes on to its INSERT.
Start(s) ==
    /\ pc[s] = "stopped"
    /\ IF Len(locations) = 0
       THEN /\ pc' = [pc EXCEPT ![s] = "start_insert"]
            /\ conns' = [conns EXCEPT ![s] = @ + 1]
       ELSE /\ pc' = [pc EXCEPT ![s] = "idle"]
            /\ UNCHANGED conns
    /\ UNCHANGED <<locations, patients, health_records, blood_samples,
                   now, req, resp, outbox, locked>>

\* init_database, lines 96-102: the INSERT of the default location, which
\* begins the transaction, the commit and the close; then the server takes
\* requests.  While the write lock is held the INSERT raises, which no
\* code catches: the process ends.
StartInsert(s) ==
    /\ pc[s] = "start_insert"
    /\ IF Locked
       THEN /\ pc' = [pc EXCEPT ![s] = "stopped"]
            /\ conns' = [conns EXCEPT ![s] = 0]
            /\ UNCHANGED locations
       ELSE /\ locations' = Append(locations, SeedLocation(locations, now))
            /\ pc' = [pc EXCEPT ![s] = "idle"]
            /\ conns' = [conns EXCEPT ![s] = @ - 1]
    /\ UNCHANGED <<patients, health_records, blood_samples,
                   now, req, resp, outbox, locked>>

\* main(): KeyboardInterrupt ends serve_forever, or init_database before
\* it, wherever the process is; the process ends, which closes every
\* connection it has open and gives up the write lock if it holds it.  A
\* request it was handling gets no response.
Stop(s) ==
    /\ pc[s] # "stopped"
    /\ pc' = [pc EXCEPT ![s] = "stopped"]
    /\ req' = [req EXCEPT ![s] = Idle]
    /\ conns' = [conns EXCEPT ![s] = 0]
    /\ locked' = [locked EXCEPT ![s] = FALSE]
    /\ UNCHANGED <<locations, patients, health_records, blood_samples,
                   now, resp, outbox>>

\* Processes started and stopped on the same file, at any time, serving
\* the registry's requests in between.
NextStartup ==
    \/ Tick
    \/ \E s \in Servers : CollectGarbage(s)
    \/ \E s \in Servers : Start(s)
    \/ \E s \in Servers : StartInsert(s)
    \/ \E s \in Servers : Stop(s)
    \/ \E s \in Servers, data \in LocationForms : AddLocation(s, data)
    \/ \E s \in Servers, data \in RegisterForms : RegisterStart(s, data)
    \/ \E s \in Servers : RegisterInsert(s)

SpecStartup == InitFresh /\ [][NextStartup]_vars

\* One process on the file: the program started, stopped (at any point,
\* between the count and the INSERT of init_database included) and started
\* again, serving the registry's requests while it runs.
NextRestart ==
    \/ Tick
    \/ \E s \in MainProcess : CollectGarbage(s)
    \/ \E s \in MainProcess : Start(s)
    \/ \E s \in MainProcess : StartInsert(s)
    \/ \E s \in MainProcess : Stop(s)
    \/ \E s \in MainProcess, data \in LocationForms : AddLocation(s, data)
    \/ \E s \in MainProcess, data \in RegisterForms : RegisterStart(s, data)
    \/ \E s \in MainProcess : RegisterInsert(s)

SpecRestart == InitFresh /\ [][NextRestart]_vars

\* What a request path can end with: the request line is split at its
\* blanks and the path at its slashes, and its bytes are read as latin-1.
IsSegment(cs) ==
    \A i \in DOMAIN cs : cs[i] \notin Whitespace \cup BeyondLatin1 \cup {"/"}

\* The code a /patient/ path ends with: a code as issued, or as typed, or
\* nothing.
PagePaths ==
    PatientIdPaths \cup {Text(cs) : cs \in {t \in SearchTexts : IsSegment(t)}} \cup {""}

\* The code the path of the test results' form ends with.
SamplePagePaths == SampleIdPaths \cup {""}

\* The same process, serving the workflow up to the tests and the pages
\* that look the store up: the dashboard, the search, the patient page and
\* the pages of the forms.
NextViews ==
    \/ Tick
    \/ \E s \in MainProcess : CollectGarbage(s)
    \/ \E s \in MainProcess, data \in RegisterForms : RegisterStart(s, data)
    \/ \E s \in MainProcess : RegisterInsert(s)
    \/ \E s \in MainProcess, code \in PatientIdPaths, data \in CollectForms :
         CollectStart(s, code, data)
    \/ \E s \in MainProcess : CollectCount(s)
    \/ \E s \in MainProcess : CollectInsert(s)
    \/ \E s \in MainProcess, code \in SampleIdPaths, data \in TestResultsForms :
         UpdateResults(s, code, data)
    \/ \E s \in MainProcess : Dashboard(s)
    \/ \E s \in MainProcess, data \in SearchForms : Search(s, data)
    \/ \E s \in MainProcess, code \in PagePaths : PatientDetails(s, code)
    \/ \E s \in MainProcess, code \in PagePaths : AddHealthRecordForm(s, code)
    \/ \E s \in MainProcess, code \in PagePaths : CollectBloodSampleForm(s, code)
    \/ \E s \in MainProcess, code \in SamplePagePaths : UpdateTestResultsForm(s, code)

SpecViews == Init /\ [][NextViews]_vars

\* The same process, serving every request that writes to the store, each
\* with its required fields filled in.
NextClinic ==
    \/ Tick
    \/ \E s \in MainProcess : CollectGarbage(s)
    \/ \E s \in MainProcess, data \in LocationForms : AddLocation(s, data)
    \/ \E s \in MainProcess, data \in {FullRegisterForm("1")} : RegisterStart(s, data)
    \/ \E s \in MainProcess : RegisterInsert(s)
    \/ \E s \in MainProcess, code \in PatientIdPaths, data \in ClinicRecordForms :
         AddHealthRecord(s, code, data)
    \/ \E s \in MainProcess, code \in PatientIdPaths, data \in ClinicCollectForms :
         CollectStart(s, code, data)
    \/ \E s \in MainProcess : CollectCount(s)
    \/ \E s \in MainProcess : CollectInsert(s)
    \/ \E s \in MainProcess, code \in SampleIdPaths, data \in ClinicTestResultsForms :
         UpdateResults(s, code, data)
    \/ \E s \in MainProcess, code \in SampleIdPaths : SendResultsStart(s, code)
    \/ \E s \in MainProcess : SendResultsDeliver(s)
    \/ \E s \in MainProcess : SendResultsMark(s)

SpecClinic == Init /\ [][NextClinic]_vars

(* ----------------------------- the claims ----------------------------- *)
\* What the specification calls the error kinds, as the responses the
\* handlers give.
Failed(r) == r.status >= 400

DuplicatePatient == Error(500, "Registration failed: UNIQUE constraint failed: patients.patient_id")

DuplicateSample ==
    Error(500, "Failed to collect blood sample: UNIQUE constraint failed: blood_samples.sample_id")

Stored(table, column, v) == \E i \in DOMAIN table : table[i][column] = v

\* The codes of the first registrations, written out.
NthPatientCode == <<"PAT000001", "PAT000002", "PAT000003", "PAT000004">>

\* The stored codes, and the code a registration stores and returns.
C1_Rows == \A n \in DOMAIN patients : patients[n].patient_id = NthPatientCode[n]

C1_Step ==
    \A s \in Servers :
        (RegisterInsert(s) /\ Len(patients') = Len(patients) + 1) =>
            /\ patients'[Len(patients')].patient_id = NthPatientCode[Len(patients')]
            /\ resp' = Redirect("/patient/" \o NthPatientCode[Len(patients')])

\* C1: with one request handled at a time, the N-th registration stores
\* and returns the code PAT followed by N padded to six digits; the first
\* one on the empty store returns PAT000001.
C1_NthPatientCode == []C1_Rows /\ [][C1_Step]_vars

C1_Witness ==
    /\ Len(patients) = 2
    /\ patients[2].patient_id = "PAT000002"
    /\ resp = Redirect("/patient/PAT000002")

\* No code is stored twice, and what an INSERT does with its code.
C2_Unique ==
    /\ \A i, j \in DOMAIN patients :
          patients[i].patient_id = patients[j].patient_id => i = j
    /\ \A i, j \in DOMAIN blood_samples :
          blood_samples[i].sample_id = blood_samples[j].sample_id => i = j

C2_Step ==
    \A s \in Servers :
        /\ (RegisterInsert(s) /\ Has(req[s].data, RegisterRequired)) =>
              IF Stored(patients, "patient_id", req[s].patient_id)
              THEN patients' = patients /\ resp' = DuplicatePatient
              ELSE /\ Len(patients') = Len(patients) + 1
                   /\ patients'[Len(patients')].patient_id = req[s].patient_id
                   /\ ~Failed(resp')
        /\ (CollectInsert(s) /\ Has(req[s].data, CollectRequired)) =>
              IF Stored(blood_samples, "sample_id", req[s].sample_id)
              THEN blood_samples' = blood_samples /\ resp' = DuplicateSample
              ELSE /\ Len(blood_samples') = Len(blood_samples) + 1
                   /\ blood_samples'[Len(blood_samples')].sample_id = req[s].sample_id
                   /\ ~Failed(resp')

\* C2: under any interleaving of registrations, no two patient rows carry
\* the same code: an INSERT whose code is already stored is rejected with
\* the UNIQUE error and adds no row, an INSERT whose code is not stored is
\* accepted; the same for sample codes under interleaved collections.
C2_NoDuplicateCodes == []C2_Unique /\ [][C2_Step]_vars

SampleCoded(code) == {i \in DOMAIN blood_samples : blood_samples[i].sample_id = code}

\* A step that records results for a sample that is not 'collected'.
C3_Step ==
    \A s \in Servers, code \in SampleIdPaths, data \in TestResultsForms :
        (/\ UpdateResults(s, code, data)
         /\ \E i \in SampleCoded(code) : blood_samples[i].status # "collected")
        => (Failed(resp') /\ blood_samples' = blood_samples)

\* C3: recording test results for a sample that is not 'collected' fails
\* and leaves every field of the sample unchanged.
C3_RetestRejected == [][C3_Step]_vars

\* A step never moves a status backwards.
C4_Step ==
    \A i \in DOMAIN blood_samples :
        /\ blood_samples[i].status = "tested" =>
              blood_samples'[i].status # "collected"
        /\ blood_samples[i].status = "results_sent" =>
              blood_samples'[i].status = "results_sent"

\* C4: a sample's status only moves forward: a tested sample is never
\* 'collected' again and a sample whose results were sent keeps that status.
C4_StatusOneWay == [][C4_Step]_vars

\* C5: results_sent_at is set exactly when the status is 'results_sent'.
C5_SentAtIffSent ==
    \A i \in DOMAIN blood_samples :
        blood_samples[i].results_sent_at # Null <=> blood_samples[i].status = "results_sent"

\* The columns a test fills in.
TestColumns == {"test_location_id", "results", "tested_by", "tested_at"}

\* C6: while a sample is 'collected', test_location_id, results, tested_by
\* and tested_at are all null; once it is 'tested' or 'results_sent', all
\* four are set.
C6_TestFieldsFollowStatus ==
    \A i \in DOMAIN blood_samples :
        /\ blood_samples[i].status \in {"collected", "tested", "results_sent"}
        /\ blood_samples[i].status = "collected" =>
              \A c \in TestColumns : blood_samples[i][c] = Null
        /\ blood_samples[i].status \in {"tested", "results_sent"} =>
              \A c \in TestColumns : blood_samples[i][c] # Null

\* A sample whose results were sent while another request still holds the
\* row it fetched earlier.
C6_Witness ==
    \E i \in DOMAIN blood_samples :
        /\ blood_samples[i].status = "results_sent"
        /\ \E s \in Servers : pc[s] = "send_deliver"

\* The response to a statement that fails a FOREIGN KEY clause.
ForeignKeyFailure(prefix) == Error(500, prefix \o "FOREIGN KEY constraint failed")

C7_Step ==
    \A s \in Servers :
        (/\ RegisterInsert(s)
         /\ Has(req[s].data, RegisterRequired)
         /\ IntegerAffinity(req[s].data["location_id"]) \notin Ids(locations))
        => (patients' = patients /\ resp' = ForeignKeyFailure("Registration failed: "))

\* C7: a registration whose location_id is the id of no location fails
\* with a referential-integrity error and stores no patient row.
C7_UnknownLocationRejected == [][C7_Step]_vars

\* C8: every stored reference names an existing row: the location of a
\* patient, of a health record and of a sample's collection and test, and
\* the patient of a health record and of a sample.
C8_ReferentialIntegrity ==
    /\ \A i \in DOMAIN patients : patients[i].location_id \in Ids(locations)
    /\ \A i \in DOMAIN health_records :
          /\ health_records[i].location_id \in Ids(locations)
          /\ health_records[i].patient_id \in Ids(patients)
    /\ \A i \in DOMAIN blood_samples :
          /\ blood_samples[i].collection_location_id \in Ids(locations)
          /\ blood_samples[i].patient_id \in Ids(patients)
          /\ blood_samples[i].test_location_id # Null =>
                blood_samples[i].test_location_id[1] \in Ids(locations)

\* The two cases in which a delivery is refused.
Missing(code) == SampleCoded(code) = {}

NotTested(code) == \E i \in SampleCoded(code) : blood_samples[i].status # "tested"

\* No response is the outcome of a delivery for a code no sample carries
\* and of one for a sample that is not 'tested'.
C9_DistinctStep ==
    \A s \in Servers, c1, c2 \in SampleIdPaths :
        (Missing(c1) /\ NotTested(c2)) =>
            ~(SendResultsStart(s, c1) /\ SendResultsStart(s, c2))

\* A delivery that is refused fails, sends nothing and changes no sample.
C9_RefusedStep ==
    \A s \in Servers, code \in SampleIdPaths :
        (SendResultsStart(s, code) /\ (Missing(code) \/ NotTested(code))) =>
            /\ Failed(resp')
            /\ pc'[s] = "idle"
            /\ outbox' = outbox
            /\ blood_samples' = blood_samples

\* C9: delivering results for a code no sample carries fails with
\* not-found, and for a sample that is not 'tested' with invalid-transition:
\* two distinct failures, so no response is the outcome of both; in both
\* cases nothing is sent and no sample changes.
C9_DistinctFailures == [][C9_DistinctStep /\ C9_RefusedStep]_vars

\* The order of the timestamps, and what a delivery writes.
C10_Ordered ==
    \A i \in DOMAIN blood_samples :
        blood_samples[i].status = "results_sent" =>
            /\ blood_samples[i].results_sent_at # Null
            /\ blood_samples[i].tested_at # Null
            /\ blood_samples[i].results_sent_at[1] >= blood_samples[i].tested_at[1]

C10_Step ==
    \A s \in Servers :
        (SendResultsMark(s) /\ ~Failed(resp')) =>
            \A i \in DOMAIN blood_samples :
                blood_samples[i].sample_id = req[s].path =>
                    /\ blood_samples'[i].status = "results_sent"
                    /\ blood_samples'[i].results_sent_at = Some(now)

\* C10: a delivery that succeeds (its send reported success and it answers
\* with its redirect) leaves the sample 'results_sent' with results_sent_at
\* set, and every 'results_sent' sample has results_sent_at >= tested_at.
C10_SentAfterTested == []C10_Ordered /\ [][C10_Step]_vars

\* Results sent strictly later than the test.
C10_Witness ==
    \E i \in DOMAIN blood_samples :
        /\ blood_samples[i].status = "results_sent"
        /\ blood_samples[i].tested_at # Null
        /\ blood_samples[i].results_sent_at # Null
        /\ blood_samples[i].results_sent_at[1] > blood_samples[i].tested_at[1]

\* A step in which the gateway reports failure.
C11_Step ==
    \A s \in Servers :
        SendResultsOutcome(s, FALSE) =>
            /\ \A i \in SampleCoded(req[s].path) :
                  /\ blood_samples'[i].status = "tested"
                  /\ blood_samples'[i].results_sent_at = Null
            /\ blood_samples' = blood_samples
            /\ SelectTestedSample(blood_samples', patients', req[s].path) # {}

\* C11: when the send reports failure, the sample stays 'tested' with
\* results_sent_at null and every other field as it was, and a later
\* delivery of the same sample is let through to the send again.
C11_FailedSendKeepsTested == [][C11_Step]_vars

\* The response to a delivery whose send failed.
C12_Step ==
    \A s \in Servers :
        SendResultsOutcome(s, FALSE) =>
            /\ Failed(resp')
            /\ resp' # Redirect("/blood_samples")

\* C12: a delivery whose send reported failure answers with an error, never
\* with the redirect a completed delivery answers with.
C12_FailureReported == [][C12_Step]_vars

\* A step that records results, all of them filled in, under a code no
\* sample carries.
C13_Step ==
    \A s \in Servers, code \in SampleIdPaths, data \in TestResultsForms :
        (/\ UpdateResults(s, code, data)
         /\ Has(data, TestResultsRequired)
         /\ Missing(code))
        =>  /\ resp'.status = 404
            /\ blood_samples' = blood_samples

\* C13: recording test results under a code no sample carries fails with
\* not-found, not with the redirect of a recorded test, and changes no row.
C13_UnknownSampleRejected == [][C13_Step]_vars

\* The columns of a sample that recording a test does not write.
KeptColumns ==
    {"id", "sample_id", "patient_id", "collection_location_id", "collected_by",
     "collected_at", "test_type", "results_sent_at"}

\* A step that records results, all of them filled in, for a 'collected'
\* sample.
C14_Step ==
    \A s \in Servers, code \in LabSampleIdPaths, data \in TestResultsForms :
        (/\ UpdateResults(s, code, data)
         /\ Has(data, TestResultsRequired)
         /\ \E i \in SampleCoded(code) : blood_samples[i].status = "collected")
        =>  /\ DOMAIN blood_samples' = DOMAIN blood_samples
            /\ \A i \in DOMAIN blood_samples :
                  IF blood_samples[i].sample_id = code
                  THEN /\ blood_samples'[i].test_location_id =
                             Some(IntegerAffinity(data["test_location_id"]))
                       /\ blood_samples'[i].results = Some(data["results"])
                       /\ blood_samples'[i].tested_by = Some(data["tested_by"])
                       /\ blood_samples'[i].tested_at = Some(now)
                       /\ blood_samples'[i].status = "tested"
                       /\ \A c \in KeptColumns : blood_samples'[i][c] = blood_samples[i][c]
                  ELSE blood_samples'[i] = blood_samples[i]
            /\ UNCHANGED <<locations, patients, health_records>>

\* C14: recording test results for a 'collected' sample sets its
\* test_location_id, results, tested_by, tested_at and status = 'tested' to
\* the values supplied and the current time, and changes no other column of
\* it and no other sample.
C14_RecordFrame == [][C14_Step]_vars

\* One of two samples was tested, the other is as collected.
C14_Witness ==
    /\ Len(blood_samples) = 2
    /\ blood_samples[1].status = "collected"
    /\ blood_samples[2].status = "tested"
    /\ blood_samples[2].results = Some("Low iron")
    /\ resp = Redirect("/blood_samples")

\* The two steps of a collection.
C15_Step ==
    \A s \in Servers :
        /\ \A code \in PatientIdPaths, data \in CollectForms :
              (CollectRequest(s, code, data) /\ ~Stored(patients, "patient_id", code)) =>
                  /\ resp' = Error(404, "Patient not found")
                  /\ pc'[s] = "idle"
                  /\ blood_samples' = blood_samples
        /\ (CollectInsert(s) /\ Has(req[s].data, CollectRequired)) =>
              /\ Len(blood_samples') = Len(blood_samples) + 1
              /\ SubSeq(blood_samples', 1, Len(blood_samples)) = blood_samples
              /\ LET row == blood_samples'[Len(blood_samples')] IN
                    /\ row.status = "collected"
                    /\ \E i \in DOMAIN patients :
                          /\ patients[i].patient_id = req[s].path
                          /\ row.patient_id = patients[i].id
                    /\ \A c \in TestColumns \cup {"results_sent_at"} : row[c] = Null
              /\ resp' = Redirect("/patient/" \o req[s].path)

\* C15: a collection for a patient code no patient carries fails with
\* not-found and inserts no sample; for an existing patient it inserts
\* exactly one sample, 'collected', filed under that patient, with its test
\* columns and results_sent_at null.
C15_Collect == [][C15_Step]_vars

\* A sample collected for the second patient.
C15_Witness ==
    /\ Len(blood_samples) = 2
    /\ Len(patients) = 2
    /\ blood_samples[2].patient_id = patients[2].id
    /\ blood_samples[2].status = "collected"
    /\ resp = Redirect("/patient/PAT000002")

\* The codes of the first collections, written out.
NthSampleCode == <<"BS000001", "BS000002", "BS000003", "BS000004">>

C16_Rows == \A k \in DOMAIN blood_samples : blood_samples[k].sample_id = NthSampleCode[k]

C16_Step ==
    \A s \in Servers :
        /\ CollectCount(s) =>
              /\ req'[s].sample_id = NthSampleCode[Len(blood_samples) + 1]
              /\ UNCHANGED <<locations, patients, health_records, blood_samples>>
        /\ (CollectInsert(s) /\ Len(blood_samples') = Len(blood_samples) + 1) =>
              blood_samples'[Len(blood_samples')].sample_id = req[s].sample_id

\* C16: with one request handled at a time, the code issued to a collection
\* is BS followed by the number of stored samples plus one, padded to six
\* digits, so the k-th stored sample carries BS + k; issuing a code changes
\* no table.
C16_NthSampleCode == []C16_Rows /\ [][C16_Step]_vars

C16_Witness ==
    /\ Len(blood_samples) = 2
    /\ blood_samples[1].sample_id = "BS000001"
    /\ blood_samples[2].sample_id = "BS000002"

SeedRows == {i \in DOMAIN locations : locations[i].name = "Main Hospital"}

\* What init_database does to the locations: its SELECT COUNT(*) leaves
\* them alone, and its INSERT adds the seed to a store without locations.
C17_Step ==
    \A s \in Servers :
        /\ Start(s) => locations' = locations
        /\ StartInsert(s) =>
              IF Len(locations) = 0
              THEN /\ Len(locations') = 1
                   /\ locations'[1].name = "Main Hospital"
              ELSE locations' = locations

C17_Seeded ==
    /\ Cardinality(SeedRows) <= 1
    /\ (\E s \in Servers : pc[s] \notin {"stopped", "start_insert"}) =>
           Len(locations) >= 1

\* The process has initialised the store and serves; the store holds the
\* seed, a location added since and a patient registered at the seed.
C17_Witness ==
    /\ \A s \in MainProcess : pc[s] = "idle"
    /\ Len(patients) = 1
    /\ patients[1].location_id = locations[1].id
    /\ Len(locations) = 2
    /\ Cardinality(SeedRows) = 1
    /\ locations[1].name = "Main Hospital"
    /\ locations[2].name = "Clinic"

\* C17: initialisation of a store without locations inserts exactly one,
\* named 'Main Hospital'; initialisation of a store with a location inserts
\* none, so however often the program is started there is at most one seed
\* location, and once it has been started a location exists in every state.
C17_SeedLocation ==
    /\ []C17_Seeded
    /\ [][C17_Step]_vars
    /\ [][Len(locations) >= 1 => Len(locations') >= 1]_vars

\* The columns of a patient row that a registration form fills in.
FormColumns == {"first_name", "last_name", "date_of_birth", "gender", "phone"}

\* The INSERT step of a registration.
C18_Step ==
    \A s \in Servers :
        RegisterInsert(s) =>
            LET data == req[s].data
                absent == RegisterRequired \ DOMAIN data
            IN IF absent # {}
               THEN /\ patients' = patients
                    /\ \E k \in absent :
                          resp' = Error(500, "Registration failed: '" \o k \o "'")
               ELSE IntegerAffinity(data["location_id"]) \in Ids(locations) =>
                    /\ Len(patients') = Len(patients) + 1
                    /\ SubSeq(patients', 1, Len(patients)) = patients
                    /\ LET row == patients'[Len(patients')] IN
                          /\ \A c \in FormColumns : row[c] = data[c]
                          /\ row.location_id = IntegerAffinity(data["location_id"])
                          /\ ~Stored(patients, "patient_id", row.patient_id)
                          /\ resp' = Redirect("/patient/" \o row.patient_id)

\* C18: a registration without first_name, last_name, date_of_birth,
\* gender, phone or location_id fails with an error that names an absent
\* field and stores no patient; with all of them and the id of an existing
\* location it stores exactly one patient, holding the form's values, and
\* returns the code newly issued to it.
C18_RegisterValidation == [][C18_Step]_vars

\* A registration without a gender was refused after one had been stored.
C18_Witness ==
    /\ resp = Error(500, "Registration failed: 'gender'")
    /\ Len(patients) = 1
    /\ patients[1].location_id = 1
    /\ \A s \in Servers : pc[s] = "idle"

\* A text that writes a number: decimal digits, at least one, with at most
\* one decimal point.
IsNumeral(cs) ==
    /\ \A i \in DOMAIN cs : cs[i] \in DecimalDigits \cup {"."}
    /\ Cardinality({i \in DOMAIN cs : cs[i] = "."}) <= 1
    /\ \E i \in DOMAIN cs : cs[i] \in DecimalDigits

\* The column each measurement field of the form is stored in.
ColumnOf ==
    [height |-> "height", weight |-> "weight", temperature |-> "temperature",
     bp_systolic |-> "blood_pressure_systolic",
     bp_diastolic |-> "blood_pressure_diastolic", heart_rate |-> "heart_rate"]

C19_Step ==
    \A s \in Servers, code \in PatientIdPaths, data \in HealthRecordForms :
        AddHealthRecord(s, code, data) =>
            /\ ~Stored(patients, "patient_id", code) =>
                  /\ resp' = Error(404, "Patient not found")
                  /\ health_records' = health_records
            /\ (\E k \in MeasurementSet : Supplied(data, k) /\ ~IsNumeral(data[k])) =>
                  /\ Failed(resp')
                  /\ health_records' = health_records
            /\ Len(health_records') = Len(health_records) + 1 =>
                  \A k \in MeasurementSet :
                      ~Supplied(data, k) =>
                          health_records'[Len(health_records')][ColumnOf[k]] = Null

\* C19: adding a health record under a code no patient carries fails with
\* not-found and stores nothing; a measurement left out or left blank is
\* stored as null; a measurement whose text is not a number makes the
\* request fail and stores no record.
C19_HealthRecordValidation == [][C19_Step]_vars

\* The rows filed under the patient with row id `id`.
RowsOf(table, id) == {table[i] : i \in {j \in DOMAIN table : table[j].patient_id = id}}

C20_Step ==
    \A s \in Servers, code \in PatientIdPaths :
        PatientDetails(s, code) =>
            IF Stored(patients, "patient_id", code)
            THEN /\ resp'.status = 200
                 /\ resp'.body.patient.row.patient_id = code
                 /\ {r.row : r \in resp'.body.health_records} =
                        RowsOf(health_records, resp'.body.patient.row.id)
                 /\ {r.row : r \in resp'.body.blood_samples} =
                        RowsOf(blood_samples, resp'.body.patient.row.id)
            ELSE resp' = Error(404, "Patient not found")

\* C20: the page of a code a stored patient carries shows that patient with
\* exactly the health records and samples filed under it; not-found is the
\* answer only for a code no patient carries, so the page of a patient just
\* registered is shown.
C20_PatientDetail == [][C20_Step]_vars


\* C21: the dashboard gives the number of patient rows, the number of
\* location rows, the number of samples whose status is 'collected', and
\* the most recently registered patients, newest first, five at most.
MostRecent(pts, n) ==
    [k \in 1..(IF Len(pts) < n THEN Len(pts) ELSE n) |-> pts[Len(pts) - k + 1]]

C21_Step ==
    \A s \in Servers :
        Dashboard(s) =>
            /\ resp'.body.total_patients = Len(patients)
            /\ resp'.body.total_locations = Len(locations)
            /\ resp'.body.pending_samples =
                 Cardinality({i \in DOMAIN blood_samples :
                                blood_samples[i].status = "collected"})
            /\ [k \in DOMAIN resp'.body.recent_patients |->
                  resp'.body.recent_patients[k].row] = MostRecent(patients, RecentLimit)

C21_Dashboard == [][C21_Step]_vars

\* C22: a patient is looked up by the code typed, whatever its case and
\* the blanks around it: an input that is a stored code once stripped and
\* upper-cased leads to that patient, through the search form and through
\* the page's path alike; and every stored code is upper-case, the
\* prefix and the digits its issuer formats.
Typed(cs, code) == Text(upper(strip(cs))) = code

Resolves(r, i) ==
    /\ r.status = 200
    /\ r.body.patient.row = patients[i]

C22_Step ==
    \A s \in Servers, i \in DOMAIN patients :
        LET c == patients[i].patient_id IN
        /\ \A data \in SearchForms :
             (Search(s, data) /\ Has(data, {"patient_id"}) /\ Typed(data["patient_id"], c)) =>
                 /\ resp' = Redirect("/patient/" \o c)
                 /\ \E p \in SelectPatientWithLocation(patients, locations, c) :
                      p.row = patients[i]
        /\ \A cs \in {t \in SearchTexts : IsSegment(t)} :
             (PatientDetails(s, Text(cs)) /\ Typed(cs, c)) => Resolves(resp', i)

C22_UpperCase ==
    /\ \A i \in DOMAIN patients :
         \E k \in 1..MaxPatients :
            /\ patients[i].patient_id = Text(PatientCodeChars(k))
            /\ upper(PatientCodeChars(k)) = PatientCodeChars(k)
    /\ \A i \in DOMAIN blood_samples :
         \E k \in 1..MaxSamples :
            /\ blood_samples[i].sample_id = Text(SampleCodeChars(k))
            /\ upper(SampleCodeChars(k)) = SampleCodeChars(k)

C22_Lookup == []C22_UpperCase /\ [][C22_Step]_vars

\* C23: the notification of a delivery goes to the phone of the patient
\* who owns the sample, and its text carries, after the banner and in this
\* order: the patient's full name, the patient code, the sample code, the
\* test type, the results, the tester and the time of the test, all of
\* them the stored values of the sample delivered and of its owner.
Owner(sample) == patients[CHOOSE i \in DOMAIN patients : patients[i].id = sample.patient_id]

Carried(message) == [k \in 1..7 |-> message[k + 1][2]]

C23_Step ==
    \A s \in Servers :
        SendResultsDeliver(s) =>
            \E i \in DOMAIN blood_samples :
                LET sample == blood_samples[i]
                    sent == outbox'[Len(outbox')]
                IN /\ sample.sample_id = req[s].path
                   /\ Len(outbox') = Len(outbox) + 1
                   /\ sent.phone = Owner(sample).phone
                   /\ sent.message[1] = "MEDICAL TEST RESULTS"
                   /\ Carried(sent.message) =
                        <<Owner(sample).first_name \o " " \o Owner(sample).last_name,
                          Owner(sample).patient_id, sample.sample_id, sample.test_type,
                          sample.results[1], sample.tested_by[1], sample.tested_at[1]>>

C23_Notification == [][C23_Step]_vars

\* A delivery made for a sample of the second patient, tested after the
\* clock moved.
C23_Witness ==
    /\ outbox # <<>>
    /\ outbox[1].message[3][2] = "PAT000002"
    /\ outbox[1].message[8][2] = 1
    /\ \E i \in DOMAIN blood_samples : blood_samples[i].status = "results_sent"

\* C24: locations, patients and health records are append-only: a step
\* leaves every row of the three tables as it was (a patient's code with
\* it), and no table, blood_samples included, ever has fewer rows.
Extends(after, before) ==
    /\ Len(after) >= Len(before)
    /\ SubSeq(after, 1, Len(before)) = before

C24_Step ==
    /\ Extends(locations', locations)
    /\ Extends(patients', patients)
    /\ Extends(health_records', health_records)
    /\ \A i \in DOMAIN patients : patients'[i].patient_id = patients[i].patient_id
    /\ Len(blood_samples') >= Len(blood_samples)

C24_AppendOnly == [][C24_Step]_vars

\* Every table has grown and the sample has gone through the workflow.
C24_Witness ==
    /\ Len(locations) = 2
    /\ Len(patients) = 2
    /\ Len(health_records) = 1
    /\ \E i \in DOMAIN blood_samples : blood_samples[i].status = "results_sent"

\* C25: the status is moved by compare-and-set.  Of the calls that record
\* results for one sample only a call that finds it 'collected' succeeds,
\* any other fails and leaves the stored values of the winner; and the
\* write of a delivery takes effect only on a sample that is still 'tested'
\* when it is written.
C25_RecordStep ==
    \A s \in Servers, code \in SampleIdPaths, data \in TestResultsForms :
        (/\ UpdateResults(s, code, data)
         /\ \E i \in SampleCoded(code) : blood_samples[i].status # "collected")
        => /\ resp'.status \in 400..499
           /\ blood_samples' = blood_samples

C25_DeliverStep ==
    \A s \in Servers :
        SendResultsMark(s) =>
            \A i \in SampleCoded(req[s].path) :
                blood_samples[i].status # "tested" => blood_samples'[i] = blood_samples[i]

C25_CompareAndSet == [][C25_RecordStep /\ C25_DeliverStep]_vars

\* C27: for each sample, whatever the calls that record results and
\* deliver them, at most one notification is ever sent.
NotificationsOf(code) == {k \in DOMAIN outbox : outbox[k].message[4][2] = code}

C27_AtMostOnce ==
    \A i \in DOMAIN blood_samples :
        Cardinality(NotificationsOf(blood_samples[i].sample_id)) <= 1

\* C28: a sample whose status is 'results_sent' stores the results, the
\* tester and the time of the test that the last notification sent for it
\* carries.
LastNotification(code) ==
    outbox[CHOOSE k \in NotificationsOf(code) : \A j \in NotificationsOf(code) : j <= k]

C28_SentWhatIsStored ==
    \A i \in DOMAIN blood_samples :
        LET sample == blood_samples[i] IN
        sample.status = "results_sent" =>
            /\ NotificationsOf(sample.sample_id) # {}
            /\ LastNotification(sample.sample_id).message[6][2] = NoneOr(sample.results)
            /\ LastNotification(sample.sample_id).message[7][2] = NoneOr(sample.tested_by)
            /\ LastNotification(sample.sample_id).message[8][2] = NoneOr(sample.tested_at)

\* C26: on the patient page a health record's blood pressure is shown as
\* systolic/diastolic, with that record's two values, exactly when the
\* record has both, and as absent when it lacks either.
C26_Step ==
    \A s \in Servers, code \in PatientIdPaths :
        (PatientDetails(s, code) /\ resp'.status = 200) =>
            \A r \in resp'.body.health_records :
                LET systolic == r.row.blood_pressure_systolic
                    diastolic == r.row.blood_pressure_diastolic
                    cell == resp'.body.health_record_cells[r].bp
                IN IF systolic # Null /\ diastolic # Null
                   THEN cell = IntText(systolic[1]) \o "/" \o IntText(diastolic[1])
                   ELSE cell = "-"

C26_BloodPressure == [][C26_Step]_vars

Codes(table, column) == {table[i][column] : i \in DOMAIN table}

C29_Exact ==
    /\ Codes(patients, "patient_id") =
         {"PAT" \o Format06d(k) : k \in 1..Len(patients)}
    /\ Codes(blood_samples, "sample_id") =
         {"BS" \o Format06d(k) : k \in 1..Len(blood_samples)}

\* A registration or a collection that fails stores nothing, and one that
\* succeeds stores one row, whose code is the next one.
C29_Step ==
    \A s \in Servers :
        /\ RegisterInsert(s) =>
              IF Failed(resp')
              THEN patients' = patients
              ELSE /\ Len(patients') = Len(patients) + 1
                   /\ patients'[Len(patients')].patient_id =
                         "PAT" \o Format06d(Len(patients) + 1)
        /\ CollectInsert(s) =>
              IF Failed(resp')
              THEN blood_samples' = blood_samples
              ELSE /\ Len(blood_samples') = Len(blood_samples) + 1
                   /\ blood_samples'[Len(blood_samples')].sample_id =
                         "BS" \o Format06d(Len(blood_samples) + 1)

\* C29: in every state, whatever the interleaving of registrations and
\* collections, of those that succeed and those that fail, the stored
\* patient codes are exactly PAT000001 up to PAT and the number of patient
\* rows, and the stored sample codes exactly BS000001 up to BS and the
\* number of sample rows: a registration or a collection that failed has
\* used up no code.
C29_NoGaps == []C29_Exact /\ [][C29_Step]_vars

\* Two patients and the samples BS000001 and BS000002 are stored, and the
\* latest collection has failed on a code that another process stored
\* between its count and its INSERT.
C29_Witness ==
    /\ Len(patients) = 2
    /\ Codes(blood_samples, "sample_id") = {"BS000001", "BS000002"}
    /\ resp = DuplicateSample

\* C30: a handler that opens a connection to the store closes it before
\* it returns, whatever its exit (success, not found, exception): whenever
\* no request is being handled, no connection is open.
C30_NoOpenConnection ==
    (\A s \in Servers : pc[s] \in {"idle", "stopped"}) =>
        \A s \in Servers : conns[s] = 0

====
